---- MODULE Spec2Model ----
(***************************************************************************)
(* Model of the hypothesis-testing core of sbc_flows:                      *)
(*   valdiags/test_utils.py   compute_pvalue, eval_htest                   *)
(*   diagnostics/pp_plots.py  PP_vals                                      *)
(*   valdiags/localC2ST.py    train_lc2st, eval_lc2st, lc2st_scores,       *)
(*                            t_stats_lc2st                                *)
(*                                                                         *)
(* Floating point results are modelled as exact fractions num/den plus a   *)
(* NaN value (numpy's mean of an empty array).  Statistics, PIT values and *)
(* grid points only take part in order comparisons, so they are drawn from *)
(* small integer ranges.                                                   *)
(***************************************************************************)
EXTENDS Integers, Sequences, FiniteSets, TLC

\* ------------------------------------------------------------------ bounds
\* compute_pvalue: statistics are drawn from 0..MaxStat, null sequences have
\* at most MaxNulls entries.
MaxStat == 2
MaxNulls == 3
\* eval_htest: statistics from 0..HtMaxStat, null sequences of at most
\* HtMaxNulls entries, at most MaxMetrics requested metrics, significance
\* levels k/AlphaDen for k in 0..AlphaDen.
HtMaxStat == 1
HtMaxNulls == 2
MaxMetrics == 2
AlphaDen == 2
\* PP_vals: PIT values and grid points from 0..MaxLevel (level k stands for
\* the real number k/MaxLevel), at most MaxPit PIT values and MaxGrid grid
\* points.
MaxLevel == 2
MaxPit == 3
MaxGrid == 3
\* lc2st_scores / t_stats_lc2st: P, Q, x_P, x_Q and every null sample hold n
\* rows, 1 <= n <= MaxN; n_folds ranges over 1..MaxFolds, n_ensemble over
\* 1..MaxEnsemble, the number of null samples over 0..MaxTrials (and over
\* 0..MaxTrials + 1 where the order of the null trials matters).
MaxN == 3
MaxFolds == 3
MaxEnsemble == 2
MaxTrials == 1
\* The fit that fails, counted over the fits of a run, ranges over
\* 1..MaxFailAt (0: no fit fails).
MaxFailAt == 2
\* eval_lc2st on its own: the samples have 1..MaxDim columns, x_eval has
\* 1..MaxDim entries, P and Q have 0..MaxRows rows.
MaxDim == 2
MaxRows == 2
\* The SBC curve: at most MaxRanks ranks from 0..MaxRank, len(alphas) in
\* 1..MaxBins.
MaxRanks == 3
MaxRank == 2
MaxBins == 3
\* hpd_region: at most MaxGridPts grid points with unnormalised probabilities
\* in 0..MaxWeight, n_p_stars in 0..MaxPStars, confidence_level k / LevelDen
\* for k in 0..LevelDen and tol k / LevelDen for k in 0..MaxTol.
MaxGridPts == 3
MaxWeight == 2
MaxPStars == 3
LevelDen == 4
MaxTol == 1

VARIABLES
    \* ---- valdiags/test_utils.py
    last_call,      \* which function of test_utils returned last ("none" at start)
    t_stat_est,     \* compute_pvalue: argument t_stat_est
    t_stats_null,   \* compute_pvalue: argument t_stats_null (a sequence)
    p_value,        \* compute_pvalue: the value returned
    metrics,        \* eval_htest: argument metrics (a list of names)
    conf_alpha,     \* eval_htest: argument conf_alpha (a fraction)
    t_stat_data,    \* eval_htest: first dict returned by t_stats_estimator
    t_stats_null_m, \* eval_htest: second dict returned by t_stats_estimator
    reject,         \* eval_htest: the dict returned
    warnings_log,   \* the warnings compute_pvalue / eval_htest have issued
    \* ---- diagnostics/pp_plots.py
    pp_called,      \* TRUE once PP_vals has returned
    PIT_values,     \* PP_vals: argument PIT_values
    alphas,         \* PP_vals: argument alphas
    z,              \* PP_vals: the list returned
    \* ---- valdiags/localC2ST.py
    n_rows,         \* number of rows of P, Q, x_P, x_Q and of each null sample
    n_null,         \* len(list_null_samples_P): the number of null samples
    caller,         \* what the calling script passes: metric names, clf_kwargs
    failing_fit,    \* the number of the fit that raises (0: every fit succeeds)
    shuffled,       \* the order KFold's shuffle (random_state=42) gives 0..n-1
    api,            \* the function called: "none", "lc2st_scores", "t_stats_lc2st"
    targs,          \* t_stats_lc2st: its arguments
    phase,          \* t_stats_lc2st: "none", "obs", "null", "done"
    trial,          \* t_stats_lc2st: the null trial loop variable t
    probas_null,    \* t_stats_lc2st: the list probas_null
    t_stats_ensemble, \* t_stats_lc2st: the dict of observed statistics
    proba_ensemble, \* t_stats_lc2st: the probabilities on the observed data
    t_stats_null_lc, \* t_stats_lc2st: the dict t_stats_null
    sc,             \* lc2st_scores: the arguments of the running invocation
    pc,             \* lc2st_scores: "idle", "ensemble", "cv", "returned", "raised"
    iter,           \* lc2st_scores: number of loop iterations completed
    classifier,     \* lc2st_scores: the object built by clf_class(**clf_kwargs)
    folds,          \* lc2st_scores: the val_index sets kf.split(P) yields, in order
    ens_accuracies, \* lc2st_scores: the list ens_accuracies
    ens_probas,     \* lc2st_scores: the list ens_probas
    probas,         \* lc2st_scores: probas (the ensemble mean or the fold list)
    scores,         \* lc2st_scores: the dict scores
    error,          \* lc2st_scores: the exception raised ("" if none)
    heap,           \* every classifier object built so far
    unit_log,       \* what every fold / ensemble member / null trial did
    \* ---- valdiags/localC2ST.py, eval_lc2st on its own
    fm_in,          \* eval_lc2st: the arguments P, Q and x_eval
    fm_out,         \* eval_lc2st: P_x_eval and Q_x_eval, or the exception
    \* ---- plots_neurips2022.py, plots_neurips2023_new.py: the SBC curve
    sbc_in,         \* the ranks of one parameter dimension and len(alphas)
    sbc_out,        \* sbc_cdf / sbc_cdf.max(), once computed
    \* ---- valdiags/test_utils.py, two calls side by side
    rel_in,         \* the arguments of the two calls
    rel_out,        \* what the two calls returned
    \* ---- valdiags/confidence_regions.py: hpd_region
    hpd_in,         \* posterior_probs before normalisation, confidence_level,
                    \* tol and n_p_stars
    hpd_pc,         \* "loop", "returned" or "raised"
    idx,            \* hpd_region: idx
    current_confidence_level,  \* hpd_region: current_confidence_level
    new_confidence_levels,     \* hpd_region: new_confidence_levels
    hpd_region_out  \* the grid points of the returned region

htVars == <<last_call, t_stat_est, t_stats_null, p_value, metrics, conf_alpha,
            t_stat_data, t_stats_null_m, reject, warnings_log>>
ppVars == <<pp_called, PIT_values, alphas, z>>
tsVars == <<api, targs, phase, trial, probas_null, t_stats_ensemble,
            proba_ensemble, t_stats_null_lc>>
scVars == <<sc, pc, iter, classifier, folds, ens_accuracies, ens_probas,
            probas, scores, error>>
dataVars == <<n_rows, shuffled, n_null, caller, failing_fit>>
lcVars == <<dataVars, tsVars, scVars, heap, unit_log>>
\* The state of the functions that are modelled on their own.
fmVars == <<fm_in, fm_out>>
sbcVars == <<sbc_in, sbc_out>>
relVars == <<rel_in, rel_out>>
hpdVars == <<hpd_in, hpd_pc, idx, current_confidence_level,
             new_confidence_levels, hpd_region_out>>
extVars == <<fmVars, sbcVars, relVars, hpdVars>>
vars == <<htVars, ppVars, lcVars, extVars>>

\* ------------------------------------------------------- float arithmetic
\* A float is NaN or an exact fraction num/den with den > 0.
NaN == [nan |-> TRUE, num |-> 0, den |-> 1]
Frac(a, b) == [nan |-> FALSE, num |-> a, den |-> b]

\* IEEE comparisons: every comparison with NaN is False.
FLess(x, y) == ~x.nan /\ ~y.nan /\ x.num * y.den < y.num * x.den
FLeq(x, y) == ~x.nan /\ ~y.nan /\ x.num * y.den <= y.num * x.den
FEq(x, y) == ~x.nan /\ ~y.nan /\ x.num * y.den = y.num * x.den

\* Sequences over S of length at most n.
SeqUpTo(S, n) == UNION {[1..k -> S] : k \in 0..n}

\* Number of True entries of a boolean array, summed left to right.
RECURSIVE SumBool(_)
SumBool(b) == IF Len(b) = 0 THEN 0
              ELSE (IF Head(b) THEN 1 ELSE 0) + SumBool(Tail(b))

\* Mutant of NpMean: the sum divided by size + 1.
NpMean_plus1(b) == IF Len(b) = 0 THEN NaN ELSE Frac(SumBool(b), Len(b) + 1)

\* numpy's mean of a boolean array: sum / size, NaN for an empty array.
NpMean(b) == IF Len(b) = 0 THEN NaN ELSE Frac(SumBool(b), Len(b))

\* ------------------------------------------------ valdiags/test_utils.py
\* Mutants of compute_pvalue: a non-strict comparison; the comparison turned
\* round; a sum instead of a mean.
compute_pvalue_rev(t, nulls) == NpMean([i \in 1..Len(nulls) |-> t > nulls[i]])
compute_pvalue_leq(t, nulls) == NpMean([i \in 1..Len(nulls) |-> t <= nulls[i]])
compute_pvalue_sum(t, nulls) ==
    Frac(SumBool([i \in 1..Len(nulls) |-> t < nulls[i]]), 1)

\* Mutant of compute_pvalue: only the first null value is looked at.
compute_pvalue_head(t, nulls) ==
    NpMean([i \in 1..(IF Len(nulls) = 0 THEN 0 ELSE 1) |-> t < nulls[i]])

\* return (t_stat_est < np.array(t_stats_null)).mean()
compute_pvalue(t, nulls) == NpMean([i \in 1..Len(nulls) |-> t < nulls[i]])

\* A direct call compute_pvalue(t, nulls).
ComputePvalue ==
    /\ last_call = "none"
    /\ \E t \in 0..MaxStat, nulls \in SeqUpTo(0..MaxStat, MaxNulls) :
          /\ t_stat_est' = t
          /\ t_stats_null' = nulls
          /\ p_value' = compute_pvalue(t, nulls)
    /\ last_call' = "compute_pvalue"
    /\ UNCHANGED <<metrics, conf_alpha, t_stat_data, t_stats_null_m, reject>>
    /\ warnings_log' = warnings_log  \* no statement of compute_pvalue warns
    /\ UNCHANGED <<ppVars, lcVars, extVars>>

\* The metric names used with eval_htest.
MetricNames == {"accuracy", "div"}

\* The elements of a list.
Range(s) == {s[i] : i \in 1..Len(s)}

\* Mutant of the decision: p_value <= conf_alpha.
decision_leq(p, alpha) == FLeq(p, alpha)

\* reject[m] = p_value < conf_alpha
decision(p, alpha) == FLess(p, alpha)

\* The loop of eval_htest: the dict holds one entry per name met in the list.
RECURSIVE reject_loop(_, _, _, _, _)
reject_loop(ms, data, nulls, alpha, acc) ==
    IF Len(ms) = 0 THEN acc
    ELSE LET m == Head(ms)
             p == compute_pvalue(data[m], nulls[m])
             new == [k \in (DOMAIN acc) \cup {m} |->
                        IF k = m THEN decision(p, alpha) ELSE acc[k]]
         IN reject_loop(Tail(ms), data, nulls, alpha, new)

\* The empty dict.
EmptyDict == [k \in {} |-> FALSE]

\* eval_htest(t_stats_estimator, metrics, conf_alpha): the estimator returns
\* an observed statistic and a null sequence for every requested metric.
EvalHtest ==
    /\ last_call = "none"
    /\ \E ms \in SeqUpTo(MetricNames, MaxMetrics), a \in 0..AlphaDen :
        \E data \in [Range(ms) -> 0..HtMaxStat],
           nulls \in [Range(ms) -> SeqUpTo(0..HtMaxStat, HtMaxNulls)] :
          /\ metrics' = ms
          /\ conf_alpha' = Frac(a, AlphaDen)
          /\ t_stat_data' = data
          /\ t_stats_null_m' = nulls
          /\ reject' = reject_loop(ms, data, nulls, Frac(a, AlphaDen), EmptyDict)
    /\ last_call' = "eval_htest"
    /\ UNCHANGED <<t_stat_est, t_stats_null, p_value>>
    /\ warnings_log' = warnings_log  \* no statement of eval_htest warns
    /\ UNCHANGED <<ppVars, lcVars, extVars>>

HtInit ==
    /\ last_call = "none"
    /\ warnings_log = <<>>
    /\ t_stat_est = 0
    /\ t_stats_null = <<>>
    /\ p_value = NaN
    /\ metrics = <<>>
    /\ conf_alpha = Frac(0, AlphaDen)
    /\ t_stat_data = EmptyDict
    /\ t_stats_null_m = EmptyDict
    /\ reject = EmptyDict

\* --------------------------------------------- diagnostics/pp_plots.py
\* Mutant of PP_vals: a strict comparison PIT_values < alpha.
PP_vals_strict(pit, grid) ==
    [i \in 1..Len(grid) |-> NpMean([j \in 1..Len(pit) |-> pit[j] < grid[i]])]

\* Mutant of PP_vals: the fraction of PIT values above alpha.
PP_vals_above(pit, grid) ==
    [i \in 1..Len(grid) |-> NpMean([j \in 1..Len(pit) |-> pit[j] >= grid[i]])]

\* z = [np.mean(PIT_values <= alpha) for alpha in alphas]
PP_vals(pit, grid) ==
    [i \in 1..Len(grid) |-> NpMean([j \in 1..Len(pit) |-> pit[j] <= grid[i]])]

\* A call PP_vals(PIT_values, alphas), on any grid.
PPVals ==
    /\ ~pp_called
    /\ \E pit \in SeqUpTo(0..MaxLevel, MaxPit),
          grid \in SeqUpTo(0..MaxLevel, MaxGrid) :
          /\ PIT_values' = pit
          /\ alphas' = grid
          /\ z' = PP_vals(pit, grid)
    /\ pp_called' = TRUE
    /\ UNCHANGED <<htVars, lcVars, extVars>>

PpInit ==
    /\ pp_called = FALSE
    /\ PIT_values = <<>>
    /\ alphas = <<>>
    /\ z = <<>>

\* ------------------------------------------------ valdiags/localC2ST.py
\* An array argument is None or a sequence of rows; a row of an input array is
\* named by the array, the null trial it belongs to (0 if none) and its
\* 0-based index.
NoneArr == [none |-> TRUE, rows |-> <<>>]
Arr(rows) == [none |-> FALSE, rows |-> rows]
Array(name, null_trial, len) ==
    Arr([k \in 1..len |-> <<name, null_trial, k - 1>>])
x_eval_row == <<"x_eval", 0, 0>>

\* The elements of a finite set of integers in increasing order.
RECURSIVE SortedSeq(_)
SortedSeq(S) ==
    IF S = {} THEN <<>>
    ELSE LET m == CHOOSE a \in S : \A b \in S : a <= b
         IN <<m>> \o SortedSeq(S \ {m})

\* numpy's A[index] for an index array: the rows at those indices, in the
\* order of the index array; it raises IndexError unless InBounds.
InBounds(A, index) == \A k \in 1..Len(index) : index[k] < Len(A.rows)
Index(A, index) == Arr([k \in 1..Len(index) |-> A.rows[index[k] + 1]])

\* np.concatenate([A, X], axis=1): row k of A beside row k of X.
Concat1(A, X) == [k \in 1..Len(A.rows) |-> <<A.rows[k], X.rows[k]>>]

\* x_eval.repeat(len(A), 1) beside A, for x_eval a torch tensor (as the callers
\* pass it): every row of A beside x_eval.
WithXEval(A) == [k \in 1..Len(A.rows) |-> <<A.rows[k], x_eval_row>>]

\* A classifier object: the clf_kwargs it was built with, the units (call
\* number, loop index) that fitted it and that evaluated it, and the rows of
\* its last fit.
NewClf == [config |-> "", fit_units |-> {}, eval_units |-> {},
           train_P |-> <<>>, train_Q |-> <<>>]

\* The number of fits done so far.
NumFits(h) == Cardinality({c \in 1..Len(h) : h[c].fit_units # {}})

\* train_c2st raises when the fit of the classifier fails.
FitFails(h) == failing_fit = NumFits(h) + 1

\* train_c2st(P, Q, clf) of valdiags/vanillaC2ST.py: clones clf, fits the clone
\* on the rows of P and Q and returns the clone.
train_c2st(h, clf, unit, joint_P, joint_Q) ==
    LET clone == Len(h) + 1
        fitted == [NewClf EXCEPT !.config = h[clf].config,
                                 !.fit_units = {unit},
                                 !.train_P = joint_P, !.train_Q = joint_Q]
    IN [heap |-> Append(h, fitted), clf |-> clone]

\* Mutant of train_lc2st: the trained clone is dropped and the instance passed
\* in is returned.
train_lc2st_returns_arg(h, clf, unit, P, Q, x_P, x_Q) ==
    [heap |-> train_c2st(h, clf, unit, Concat1(P, x_P), Concat1(Q, x_Q)).heap,
     clf |-> clf]

\* train_lc2st(P, Q, x_P, x_Q, clf): the classifier train_c2st returns for the
\* joint samples [P, x_P] and [Q, x_Q].
train_lc2st(h, clf, unit, P, Q, x_P, x_Q) ==
    train_c2st(h, clf, unit, Concat1(P, x_P), Concat1(Q, x_Q))

\* A float, or an array of floats, that comes out of classifiers: the sum of
\* the outputs listed in "of" divided by "over".
Val(output) == [of |-> <<output>>, over |-> 1]

\* eval_c2st(P, Q, clf, single_class_eval) of valdiags/vanillaC2ST.py: scores
\* clf on the rows of P, and on those of Q unless single_class_eval; returns
\* the accuracy and the predicted probabilities of class 0.
eval_c2st(h, clf, unit, P_rows, Q_rows, single_class_eval) ==
    LET rows == Range(P_rows) \cup
                    (IF single_class_eval THEN {} ELSE Range(Q_rows))
    IN [heap |-> [h EXCEPT ![clf].eval_units = @ \cup {unit}],
        rows |-> rows,
        single_class_eval |-> single_class_eval,
        accuracy |-> Val([score |-> clf, rows |-> rows]),
        proba |-> Val([predict_proba |-> clf, rows |-> rows])]

\* Mutant of eval_lc2st: the caller's single_class_eval is passed on even
\* without Q.
eval_lc2st_passes_flag(h, clf, unit, P, Q, single_class_eval) ==
    IF Q.none
    THEN eval_c2st(h, clf, unit, WithXEval(P), <<>>, single_class_eval)
    ELSE eval_c2st(h, clf, unit, WithXEval(P), WithXEval(Q), single_class_eval)

\* eval_lc2st(P, x_eval, clf, Q, single_class_eval), for P not None.
eval_lc2st(h, clf, unit, P, Q, single_class_eval) ==
    IF Q.none
    THEN eval_c2st(h, clf, unit, WithXEval(P), <<>>, TRUE)
    ELSE eval_c2st(h, clf, unit, WithXEval(P), WithXEval(Q), single_class_eval)

\* The outputs summed in the values of a list, in list order.
RECURSIVE SumOf(_)
SumOf(list) == IF Len(list) = 0 THEN <<>>
               ELSE Head(list).of \o SumOf(Tail(list))

\* Mutant of MeanAxis0: the sum divided by one more than the length.
MeanAxis0_plus1(list) ==
    [of |-> SumOf(list), over |-> list[1].over * (Len(list) + 1)]

\* np.mean(list, axis=0) for a non-empty list of values of one shape: their
\* sum divided by the length of the list.
MeanAxis0(list) == [of |-> SumOf(list), over |-> list[1].over * Len(list)]

\* The metric names compute_metric of valdiags/vanillaC2ST.py knows, and the
\* names m for which "accuracy" in m holds, among the names used here.
KnownMetrics == {"accuracy", "probas_mean", "div", "mse"}
HasAccuracy(m) == m \in {"accuracy", "accuracy_cal"}

\* compute_metric(proba, metrics, single_class_eval) of
\* valdiags/vanillaC2ST.py: a dict with one value per name of the list,
\* computed from the probabilities; an unknown name is a configuration error.
compute_metric(proba, ms, single_class_eval) ==
    IF \E m \in Range(ms) : m \notin KnownMetrics
    THEN [error |-> "ConfigurationError", scores |-> <<>>]
    ELSE [error |-> "",
          scores |-> [m \in Range(ms) |->
                         [metric |-> m, proba |-> proba,
                          single_class_eval |-> single_class_eval]]]

\* The dict d with d[m] set to v.
SetItem(d, m, v) == [k \in (DOMAIN d) \cup {m} |-> IF k = m THEN v ELSE d[k]]

\* Lines 218-225: "for m in metrics" of the ensemble branch, from the dict
\* acc on; it stops at the first name compute_metric raises for.
RECURSIVE assign_scores(_, _, _, _, _)
assign_scores(ms, acc, accuracy, proba, single_class_eval) ==
    IF Len(ms) = 0 THEN [error |-> "", scores |-> acc]
    ELSE LET m == Head(ms)
             cm == compute_metric(proba, <<m>>, single_class_eval)
         IN IF HasAccuracy(m)
            THEN assign_scores(Tail(ms), SetItem(acc, m, accuracy),
                               accuracy, proba, single_class_eval)
            ELSE IF cm.error # ""
            THEN [error |-> cm.error, scores |-> acc]
            ELSE assign_scores(Tail(ms), SetItem(acc, m, cm.scores[m]),
                               accuracy, proba, single_class_eval)

\* Mutant of append_scores: the values of a fold are put in front of the
\* lists.
RECURSIVE append_scores_front(_, _, _, _, _)
append_scores_front(ms, acc, accuracy, proba, single_class_eval) ==
    IF Len(ms) = 0 THEN [error |-> "", scores |-> acc]
    ELSE LET m == Head(ms)
             cm == compute_metric(proba, <<m>>, single_class_eval)
         IN IF HasAccuracy(m)
            THEN append_scores_front(Tail(ms),
                                     [acc EXCEPT ![m] = <<accuracy>> \o @],
                                     accuracy, proba, single_class_eval)
            ELSE IF cm.error # ""
            THEN [error |-> cm.error, scores |-> acc]
            ELSE append_scores_front(Tail(ms),
                                     [acc EXCEPT ![m] = <<cm.scores[m]>> \o @],
                                     accuracy, proba, single_class_eval)

\* Lines 259-267: "for m in metrics" of a fold, appending to the lists of acc.
RECURSIVE append_scores(_, _, _, _, _)
append_scores(ms, acc, accuracy, proba, single_class_eval) ==
    IF Len(ms) = 0 THEN [error |-> "", scores |-> acc]
    ELSE LET m == Head(ms)
             cm == compute_metric(proba, <<m>>, single_class_eval)
         IN IF HasAccuracy(m)
            THEN append_scores(Tail(ms),
                               [acc EXCEPT ![m] = Append(@, accuracy)],
                               accuracy, proba, single_class_eval)
            ELSE IF cm.error # ""
            THEN [error |-> cm.error, scores |-> acc]
            ELSE append_scores(Tail(ms),
                               [acc EXCEPT ![m] = Append(@, cm.scores[m])],
                               accuracy, proba, single_class_eval)

\* dict(zip(names, [[] for _ in range(len(names))])): an empty list per name.
EmptyLists(names) == [m \in Range(names) |-> <<>>]

\* KFold(n_splits=k, shuffle=True, random_state=42).split(P) over m rows: fold
\* f (0-based) holds out FoldSize consecutive entries of the shuffled indices.
FoldSize_floor(m, k, f) == m \div k
FoldSize(m, k, f) == (m \div k) + (IF f < m % k THEN 1 ELSE 0)
FoldStart(m, k, f) == f * (m \div k) + (IF f < m % k THEN f ELSE m % k)
\* Mutant of KFoldSplit: the shuffle is not seeded; every object built before
\* the call moves the order on by one.
KFoldSplit_unseeded(m, k) ==
    [f \in 1..k |->
        {shuffled[((j - 1 + Len(heap)) % m) + 1] :
            j \in (FoldStart(m, k, f - 1) + 1)..
                  (FoldStart(m, k, f - 1) + FoldSize(m, k, f - 1))}]
KFoldSplit(m, k) ==
    [f \in 1..k |->
        {shuffled[j] : j \in (FoldStart(m, k, f - 1) + 1)..
                             (FoldStart(m, k, f - 1) + FoldSize(m, k, f - 1))}]

\* Mutant of cv_train: the whole array instead of its training rows.
cv_train_whole(A, train_index) == A

\* P[train_index], x_P[train_index], Q[train_index], x_Q[train_index]
cv_train(A, train_index) == Index(A, train_index)

\* The arguments lc2st_scores can be called with.
FlagSets ==
    [single_class_eval : BOOLEAN, cross_val : BOOLEAN, n_folds : 1..MaxFolds,
     in_sample : BOOLEAN, has_P_eval : BOOLEAN, has_Q_eval : BOOLEAN]

\* An optional evaluation array of m rows.
OptArray(has, name, m) == IF has THEN Array(name, 0, m) ELSE NoneArr

\* The numbers of rows of P_eval, Q_eval and P_eval_null when one is given: as
\* many as P has, or one fewer.
TestSizes(f) ==
    IF f.has_P_eval \/ f.has_Q_eval THEN {n_rows - 1, n_rows} \ {0}
    ELSE {n_rows}

\* Mutant of EnterScores: the split does not check the number of folds against
\* the number of rows.
EnterScores_unchecked(a) ==
    /\ sc' = a
    /\ heap' = Append(heap, [NewClf EXCEPT !.config = a.clf_kwargs])
    /\ classifier' = Len(heap) + 1
    /\ iter' = 0
    /\ ens_accuracies' = <<>>
    /\ ens_probas' = <<>>
    /\ probas' = <<>>
    /\ scores' = IF a.cross_val THEN EmptyLists(a.metrics) ELSE <<>>
    /\ IF ~a.cross_val
       THEN pc' = "ensemble" /\ folds' = <<>> /\ error' = ""
       ELSE IF a.n_folds < 2
       THEN pc' = "raised" /\ folds' = <<>> /\ error' = "ValueError"
       ELSE /\ pc' = "cv"
            /\ folds' = KFoldSplit(Len(a.P.rows), a.n_folds)
            /\ error' = ""

\* lc2st_scores up to its loop: the classifier is built; with cross_val the
\* KFold object is built (ValueError for n_splits < 2) and its split started
\* (ValueError for n_splits greater than the number of rows).
EnterScores(a) ==
    /\ sc' = a
    /\ heap' = Append(heap, [NewClf EXCEPT !.config = a.clf_kwargs])
    /\ classifier' = Len(heap) + 1
    /\ iter' = 0
    /\ ens_accuracies' = <<>>
    /\ ens_probas' = <<>>
    /\ probas' = <<>>
    /\ scores' = IF a.cross_val THEN EmptyLists(a.metrics) ELSE <<>>
    /\ IF ~a.cross_val
       THEN pc' = "ensemble" /\ folds' = <<>> /\ error' = ""
       ELSE IF a.n_folds < 2 \/ a.n_folds > Len(a.P.rows)
       THEN pc' = "raised" /\ folds' = <<>> /\ error' = "ValueError"
       ELSE /\ pc' = "cv"
            /\ folds' = KFoldSplit(Len(a.P.rows), a.n_folds)
            /\ error' = ""

\* A call lc2st_scores(P, Q, x_P, x_Q, x_eval, ...).
CallLc2stScores ==
    /\ api = "none"
    /\ \E f \in FlagSets, e \in 1..MaxEnsemble :
        \E m \in TestSizes(f) :
          EnterScores([P |-> Array("P", 0, n_rows), Q |-> Array("Q", 0, n_rows),
                       x_P |-> Array("x_P", 0, n_rows), x_Q |-> Array("x_Q", 0, n_rows),
                       x_eval |-> x_eval_row,
                       P_eval |-> OptArray(f.has_P_eval, "P_eval", m),
                       Q_eval |-> OptArray(f.has_Q_eval, "Q_eval", m),
                       metrics |-> caller.metrics,
                       clf_kwargs |-> caller.clf_kwargs,
                       single_class_eval |-> f.single_class_eval,
                       cross_val |-> f.cross_val, n_folds |-> f.n_folds,
                       in_sample |-> f.in_sample, n_ensemble |-> e,
                       callno |-> 0])
    /\ api' = "lc2st_scores"
    /\ UNCHANGED <<targs, phase, trial, probas_null, t_stats_ensemble,
                   proba_ensemble, t_stats_null_lc, unit_log>>
    /\ UNCHANGED <<dataVars, htVars, ppVars, extVars>>

\* Mutant of eval_population: the evaluation array, whatever in_sample.
eval_population_supplied(in_sample, A, A_eval) == A_eval

\* Lines 199-200: "if in_sample: P_eval, Q_eval = P, Q".
eval_population(in_sample, A, A_eval) == IF in_sample THEN A ELSE A_eval

\* One iteration of "for _ in range(n_ensemble)".
EnsembleStep ==
    /\ pc = "ensemble"
    /\ iter < sc.n_ensemble
    /\ LET unit == <<sc.callno, iter>>
           tr == train_lc2st(heap, classifier, unit, sc.P, sc.Q, sc.x_P, sc.x_Q)
           Pe == eval_population(sc.in_sample, sc.P, sc.P_eval)
           Qe == eval_population(sc.in_sample, sc.Q, sc.Q_eval)
           ev == eval_lc2st(tr.heap, tr.clf, unit, Pe, Qe, sc.single_class_eval)
       IN IF FitFails(heap)
          THEN \* the fit inside train_c2st raises
               /\ pc' = "raised"
               /\ error' = "ClassifierFitFailure"
               /\ UNCHANGED <<sc, heap, iter, ens_accuracies, ens_probas,
                              unit_log>>
          ELSE
          /\ sc' = [sc EXCEPT !.P_eval = Pe, !.Q_eval = Qe]
          /\ IF Pe.none
             THEN \* len(P) in eval_lc2st raises TypeError
                  /\ pc' = "raised"
                  /\ error' = "TypeError"
                  /\ heap' = tr.heap
                  /\ UNCHANGED <<iter, ens_accuracies, ens_probas, unit_log>>
             ELSE /\ heap' = ev.heap
                  /\ ens_accuracies' = Append(ens_accuracies, ev.accuracy)
                  /\ ens_probas' = Append(ens_probas, ev.proba)
                  /\ unit_log' = Append(unit_log,
                        [unit |-> unit, mode |-> "ensemble", clf |-> tr.clf,
                         held_out |-> {},
                         eval |-> ev.rows,
                         Q_none |-> Qe.none,
                         flag_arg |-> sc.single_class_eval,
                         flag_used |-> ev.single_class_eval])
                  /\ iter' = iter + 1
                  /\ UNCHANGED <<pc, error>>
    /\ UNCHANGED <<classifier, folds, probas, scores>>
    /\ UNCHANGED <<tsVars, dataVars, htVars, ppVars, extVars>>

\* Mutant of EnsembleFinish: the means are taken as soon as one member is done.
EnsembleFinish_early ==
    /\ pc = "ensemble"
    /\ iter >= 1
    /\ LET accuracy == MeanAxis0(ens_accuracies)
           mean_probas == MeanAxis0(ens_probas)
           r == assign_scores(sc.metrics, <<>>, accuracy, mean_probas,
                              sc.single_class_eval)
       IN /\ probas' = mean_probas
          /\ scores' = r.scores
          /\ error' = r.error
          /\ pc' = IF r.error # "" THEN "raised" ELSE "returned"
    /\ UNCHANGED <<sc, iter, classifier, folds, ens_accuracies, ens_probas>>
    /\ UNCHANGED <<tsVars, heap, unit_log, dataVars, htVars, ppVars, extVars>>

\* The end of the ensemble branch: the means and the metrics, then the return.
EnsembleFinish ==
    /\ pc = "ensemble"
    /\ iter = sc.n_ensemble
    /\ LET accuracy == MeanAxis0(ens_accuracies)
           mean_probas == MeanAxis0(ens_probas)
           r == assign_scores(sc.metrics, <<>>, accuracy, mean_probas,
                              sc.single_class_eval)
       IN /\ probas' = mean_probas
          /\ scores' = r.scores
          /\ error' = r.error
          /\ pc' = IF r.error # "" THEN "raised" ELSE "returned"
    /\ UNCHANGED <<sc, iter, classifier, folds, ens_accuracies, ens_probas>>
    /\ UNCHANGED <<tsVars, heap, unit_log, dataVars, htVars, ppVars, extVars>>

\* One iteration of "for train_index, val_index in kf.split(P)".
CVStep ==
    /\ pc = "cv"
    /\ iter < sc.n_folds
    /\ LET val_index == SortedSeq(folds[iter + 1])
           train_index == SortedSeq((0..(Len(sc.P.rows) - 1)) \ folds[iter + 1])
           P_train == cv_train(sc.P, train_index)
           x_P_train == cv_train(sc.x_P, train_index)
           Q_train == cv_train(sc.Q, train_index)
           x_Q_train == cv_train(sc.x_Q, train_index)
           P_val == IF sc.P_eval.none THEN Index(sc.P, val_index)
                    ELSE Index(sc.P_eval, val_index)
           Q_val == IF sc.Q_eval.none THEN Index(sc.Q, val_index)
                    ELSE Index(sc.Q_eval, val_index)
           unit == <<sc.callno, iter>>
           tr == train_lc2st(heap, classifier, unit,
                             P_train, Q_train, x_P_train, x_Q_train)
           ev == eval_lc2st(tr.heap, tr.clf, unit, P_val, Q_val,
                            sc.single_class_eval)
           r == append_scores(sc.metrics, scores, ev.accuracy, ev.proba,
                              sc.single_class_eval)
       IN IF \/ ~sc.P_eval.none /\ ~InBounds(sc.P_eval, val_index)
             \/ ~sc.Q_eval.none /\ ~InBounds(sc.Q_eval, val_index)
          THEN \* P_eval[val_index] or Q_eval[val_index] raises IndexError
               /\ pc' = "raised"
               /\ error' = "IndexError"
               /\ UNCHANGED <<iter, probas, scores, heap, unit_log>>
          ELSE IF FitFails(heap)
          THEN \* the fit inside train_c2st raises
               /\ pc' = "raised"
               /\ error' = "ClassifierFitFailure"
               /\ UNCHANGED <<iter, probas, scores, heap, unit_log>>
          ELSE /\ heap' = ev.heap
               /\ scores' = r.scores
               /\ unit_log' = Append(unit_log,
                     [unit |-> unit, mode |-> "cv", clf |-> tr.clf,
                      held_out |-> folds[iter + 1],
                      eval |-> ev.rows,
                      Q_none |-> Q_val.none,
                      flag_arg |-> sc.single_class_eval,
                      flag_used |-> ev.single_class_eval])
               /\ IF r.error # ""
                  THEN \* compute_metric raises
                       /\ pc' = "raised"
                       /\ error' = r.error
                       /\ UNCHANGED <<iter, probas>>
                  ELSE /\ probas' = Append(probas, ev.proba)
                       /\ iter' = iter + 1
                       /\ UNCHANGED <<pc, error>>
    /\ UNCHANGED <<sc, classifier, folds, ens_accuracies, ens_probas>>
    /\ UNCHANGED <<tsVars, dataVars, htVars, ppVars, extVars>>

\* Mutant of CVFinish: the loop is left after n_ensemble folds.
CVFinish_after_n_ensemble ==
    /\ pc = "cv"
    /\ iter = sc.n_ensemble
    /\ pc' = "returned"
    /\ UNCHANGED <<sc, iter, classifier, folds, ens_accuracies, ens_probas,
                   probas, scores, error>>
    /\ UNCHANGED <<tsVars, heap, unit_log, dataVars, htVars, ppVars, extVars>>

\* The end of the cross-validation branch: the return.
CVFinish ==
    /\ pc = "cv"
    /\ iter = sc.n_folds
    /\ pc' = "returned"
    /\ UNCHANGED <<sc, iter, classifier, folds, ens_accuracies, ens_probas,
                   probas, scores, error>>
    /\ UNCHANGED <<tsVars, heap, unit_log, dataVars, htVars, ppVars, extVars>>

\* The defaults of lc2st_scores for the options t_stats_lc2st hands on through
\* **kwargs only.
DefaultCrossVal == TRUE
DefaultInSample == FALSE

\* A boolean keyword option: left out, or given as True or as False.
OptBool == {"absent", "True", "False"}
FromKwargs(kw, default) == IF kw = "absent" THEN default ELSE kw = "True"

\* Lines 335-347: the arguments of lc2st_scores on the observed data.
ObservedCall(a) ==
    [P |-> Array("P", 0, n_rows), Q |-> Array("Q", 0, n_rows),
     x_P |-> Array("x_P", 0, n_rows), x_Q |-> Array("x_Q", 0, n_rows),
     x_eval |-> x_eval_row,
     P_eval |-> OptArray(a.flags.has_P_eval, "P_eval", a.n_test),
     Q_eval |-> OptArray(a.flags.has_Q_eval, "Q_eval", a.n_test),
     metrics |-> a.test_stats,
     clf_kwargs |-> a.clf_kwargs,
     single_class_eval |-> a.flags.single_class_eval,
     cross_val |-> a.flags.cross_val, n_folds |-> a.flags.n_folds,
     in_sample |-> a.flags.in_sample, n_ensemble |-> a.n_ensemble_obs,
     callno |-> 0]

\* A call t_stats_lc2st(P, Q, x_P, x_Q, P_eval, x_eval, list_null_samples_P,
\* list_null_samples_x_P, ...): it starts with lc2st_scores on the observed
\* data; cross_val, n_folds, in_sample and clf_kwargs reach lc2st_scores
\* through kwargs, and an option kwargs leaves out takes its default there.
\* P_eval is a required argument; Q_eval and P_eval_null are given together
\* or not at all; there is one null trial per null sample.
CallTStatsLc2st ==
    /\ api = "none"
    /\ \E f \in FlagSets, e \in 1..MaxEnsemble,
          pre \in BOOLEAN, kw_cross_val \in OptBool, kw_in_sample \in OptBool :
        \E m \in TestSizes(f) :
          LET a == [flags |-> f, n_ensemble_obs |-> e, n_trials |-> n_null,
                    precomputed |-> pre, has_P_eval_null |-> f.has_Q_eval,
                    n_test |-> m, test_stats |-> caller.metrics,
                    clf_kwargs |-> caller.clf_kwargs]
          IN /\ f.has_P_eval
             /\ f.cross_val = FromKwargs(kw_cross_val, DefaultCrossVal)
             /\ f.in_sample = FromKwargs(kw_in_sample, DefaultInSample)
             /\ targs' = a
             /\ EnterScores(ObservedCall(a))
    /\ api' = "t_stats_lc2st"
    /\ phase' = "obs"
    /\ trial' = 0
    /\ probas_null' = <<>>
    /\ UNCHANGED <<t_stats_ensemble, proba_ensemble, t_stats_null_lc>>
    /\ UNCHANGED <<unit_log, dataVars, htVars, ppVars, extVars>>

\* lc2st_scores on the observed data has returned: the null loop starts.
ObservedReturned ==
    /\ phase = "obs"
    /\ pc = "returned"
    /\ t_stats_ensemble' = scores
    /\ proba_ensemble' = probas
    /\ t_stats_null_lc' = EmptyLists(targs.test_stats)
    /\ phase' = "null"
    /\ pc' = "idle"
    /\ UNCHANGED <<api, targs, trial, probas_null>>
    /\ UNCHANGED <<sc, iter, classifier, folds, ens_accuracies, ens_probas,
                   probas, scores, error>>
    /\ UNCHANGED <<heap, unit_log, dataVars, htVars, ppVars, extVars>>

\* Mutant of append_null: the new values are put in front of the lists.
RECURSIVE append_null_front(_, _, _)
append_null_front(ms, acc, scores_t) ==
    IF Len(ms) = 0 THEN acc
    ELSE append_null_front(Tail(ms),
                           [acc EXCEPT ![Head(ms)] = <<scores_t[Head(ms)]>> \o @],
                           scores_t)

\* Lines 376-377: "for m in test_stats: t_stats_null[m].append(scores_t[m])".
RECURSIVE append_null(_, _, _)
append_null(ms, acc, scores_t) ==
    IF Len(ms) = 0 THEN acc
    ELSE append_null(Tail(ms),
                     [acc EXCEPT ![Head(ms)] = Append(@, scores_t[Head(ms)])],
                     scores_t)

\* Mutant of PrecomputedProba: the first array, whatever the trial.
PrecomputedProba_first(t) == [precomputed_probas_null |-> 0]

\* The t-th array of precomputed_probas_null (t counted from 0).
PrecomputedProba(t) == [precomputed_probas_null |-> t]

\* A null trial with precomputed_probas_null: compute_metric on the t-th
\* precomputed array.
NullTrialPrecomputed ==
    /\ phase = "null"
    /\ pc = "idle"
    /\ trial < targs.n_trials
    /\ targs.precomputed
    /\ LET cm == compute_metric(PrecomputedProba(trial), targs.test_stats,
                                targs.flags.single_class_eval)
       IN /\ probas_null' = Append(probas_null, PrecomputedProba(trial))
          /\ IF cm.error # ""
             THEN /\ phase' = "raised"
                  /\ error' = cm.error
                  /\ UNCHANGED <<trial, t_stats_null_lc>>
             ELSE /\ t_stats_null_lc' =
                        append_null(targs.test_stats, t_stats_null_lc, cm.scores)
                  /\ trial' = trial + 1
                  /\ UNCHANGED <<phase, error>>
    /\ UNCHANGED <<api, targs, t_stats_ensemble, proba_ensemble>>
    /\ UNCHANGED <<sc, pc, iter, classifier, folds, ens_accuracies, ens_probas,
                   probas, scores>>
    /\ UNCHANGED <<heap, unit_log, dataVars, htVars, ppVars, extVars>>

\* Mutant of NullCall: the first null sample in every trial, and the defaults
\* of lc2st_scores for the metrics and the classifier.
NullCall_first_default(a, t) ==
    [ObservedCall(a) EXCEPT
        !.Q = Array("list_null_samples_P", 1, n_rows),
        !.x_Q = Array("list_null_samples_x_P", 1, n_rows),
        !.Q_eval = OptArray(a.has_P_eval_null, "P_eval_null", a.n_test),
        !.metrics = <<"accuracy">>,
        !.clf_kwargs = "alpha=0,max_iter=25000",
        !.n_ensemble = 1,
        !.callno = t + 1]

\* Lines 360-372: the arguments of lc2st_scores in null trial t (from 0): the
\* t-th null sample as Q and x_Q, P_eval_null as Q_eval, one ensemble member.
NullCall(a, t) ==
    [ObservedCall(a) EXCEPT
        !.Q = Array("list_null_samples_P", t + 1, n_rows),
        !.x_Q = Array("list_null_samples_x_P", t + 1, n_rows),
        !.Q_eval = OptArray(a.has_P_eval_null, "P_eval_null", a.n_test),
        !.n_ensemble = 1,
        !.callno = t + 1]

\* A null trial without precomputed probabilities: lc2st_scores with the t-th
\* null sample as Q and x_Q and a single ensemble member.
NullTrialCall ==
    /\ phase = "null"
    /\ pc = "idle"
    /\ trial < targs.n_trials
    /\ ~targs.precomputed
    /\ EnterScores(NullCall(targs, trial))
    /\ UNCHANGED <<tsVars, unit_log, dataVars, htVars, ppVars, extVars>>

\* lc2st_scores of null trial t has returned: its probabilities and its
\* scores are appended.
NullTrialReturned ==
    /\ phase = "null"
    /\ pc = "returned"
    /\ probas_null' = Append(probas_null, probas)
    /\ t_stats_null_lc' = append_null(targs.test_stats, t_stats_null_lc, scores)
    /\ trial' = trial + 1
    /\ pc' = "idle"
    /\ UNCHANGED <<api, targs, phase, t_stats_ensemble, proba_ensemble>>
    /\ UNCHANGED <<sc, iter, classifier, folds, ens_accuracies, ens_probas,
                   probas, scores, error>>
    /\ UNCHANGED <<heap, unit_log, dataVars, htVars, ppVars, extVars>>

\* The null loop is over: t_stats_lc2st returns.
TStatsReturn ==
    /\ phase = "null"
    /\ pc = "idle"
    /\ trial = targs.n_trials
    /\ phase' = "done"
    /\ UNCHANGED <<api, targs, trial, probas_null, t_stats_ensemble,
                   proba_ensemble, t_stats_null_lc, scVars>>
    /\ UNCHANGED <<heap, unit_log, dataVars, htVars, ppVars, extVars>>

\* The permutations of 0..m-1, as sequences.
Perms(m) ==
    {f \in [1..m -> 0..(m - 1)] : \A a, b \in 1..m : a # b => f[a] # f[b]}

\* The metric names and the classifier configuration of a caller that takes
\* the defaults of lc2st_scores (lines 125-127).
DefaultCaller ==
    [metrics |-> <<"accuracy">>, clf_kwargs |-> "alpha=0,max_iter=25000"]

\* Callers: two metrics with the default classifier; a name listed twice, with
\* a configuration of the caller's own; a name compute_metric does not know
\* that contains "accuracy"; a name it does not know that does not.
Callers ==
    {[metrics |-> <<"probas_mean", "accuracy">>,
      clf_kwargs |-> "alpha=0,max_iter=25000"],
     [metrics |-> <<"div", "div">>, clf_kwargs |-> "alpha=1e-4"],
     [metrics |-> <<"accuracy_cal">>, clf_kwargs |-> "alpha=1e-4"],
     [metrics |-> <<"bogus">>, clf_kwargs |-> "alpha=0,max_iter=25000"]}

NoArgs == [flags |-> [single_class_eval |-> TRUE, cross_val |-> TRUE,
                      n_folds |-> 1, in_sample |-> FALSE,
                      has_P_eval |-> FALSE, has_Q_eval |-> FALSE],
           n_ensemble_obs |-> 1, n_trials |-> 0, precomputed |-> FALSE,
           has_P_eval_null |-> FALSE, n_test |-> 1, test_stats |-> <<>>,
           clf_kwargs |-> ""]
NoCall == [P |-> NoneArr, Q |-> NoneArr, x_P |-> NoneArr, x_Q |-> NoneArr,
           x_eval |-> x_eval_row,
           P_eval |-> NoneArr, Q_eval |-> NoneArr, metrics |-> <<>>,
           clf_kwargs |-> "", single_class_eval |-> TRUE,
           cross_val |-> TRUE, n_folds |-> 1, in_sample |-> FALSE,
           n_ensemble |-> 1, callno |-> 0]

\* Nothing has been called yet.
LcIdle ==
    /\ api = "none"
    /\ targs = NoArgs
    /\ phase = "none"
    /\ trial = 0
    /\ probas_null = <<>>
    /\ t_stats_ensemble = <<>>
    /\ proba_ensemble = <<>>
    /\ t_stats_null_lc = <<>>
    /\ sc = NoCall
    /\ pc = "idle"
    /\ iter = 0
    /\ classifier = 0
    /\ folds = <<>>
    /\ ens_accuracies = <<>>
    /\ ens_probas = <<>>
    /\ probas = <<>>
    /\ scores = <<>>
    /\ error = ""
    /\ heap = <<>>
    /\ unit_log = <<>>

\* The data: n rows per training array, the order the seeded shuffle gives
\* n indices and the null samples; a caller with the default metrics and
\* classifier; no fit fails.
LcInit ==
    /\ n_rows \in 1..MaxN
    /\ shuffled \in Perms(n_rows)
    /\ n_null \in 0..MaxTrials
    /\ caller = DefaultCaller
    /\ failing_fit = 0
    /\ LcIdle

\* The data with the indices shuffled into decreasing order, one of the
\* callers, and the fit that fails, if any.
LcInitScores ==
    /\ n_rows \in 1..MaxN
    /\ shuffled = [k \in 1..n_rows |-> n_rows - k]
    /\ n_null \in 0..(MaxTrials + 1)
    /\ caller \in Callers
    /\ failing_fit \in 0..MaxFailAt
    /\ LcIdle

\* No data (the specifications of test_utils.py and pp_plots.py).
LcNoData ==
    /\ n_rows = 1
    /\ shuffled = <<0>>
    /\ n_null = 0
    /\ caller = DefaultCaller
    /\ failing_fit = 0
    /\ LcIdle

\* ------------------------------ valdiags/localC2ST.py: eval_lc2st, lines 93-95
\* A matrix is a sequence of rows, a row a sequence of cells.  Sample(name, m,
\* d) is an array of m rows and d columns; x_eval has d_x entries and is a
\* numpy array or a torch tensor, of shape (d_x,) or (1, d_x).
Sample(name, m, d) == [i \in 1..m |-> [c \in 1..d |-> <<name, i, c>>]]
XEval(kind, ndim, d_x) ==
    [kind |-> kind, ndim |-> ndim, data |-> [j \in 1..d_x |-> <<"x_eval", j>>]]

\* A row with every cell r times in a row (numpy's repeat along the last axis).
RECURSIVE RepeatCells(_, _)
RepeatCells(row, r) ==
    IF Len(row) = 0 THEN <<>>
    ELSE [k \in 1..r |-> Head(row)] \o RepeatCells(Tail(row), r)

\* x_eval.repeat(r, 1).  For a torch tensor the arguments are the numbers of
\* copies per dimension: r rows, each x_eval.  For a numpy array they are
\* (repeats, axis): axis 1 does not exist for shape (d_x,) (AxisError), and for
\* shape (1, d_x) every entry is repeated r times inside the one row.
Repeat(x, r) ==
    IF x.kind = "tensor" THEN [error |-> "", rows |-> [k \in 1..r |-> x.data]]
    ELSE IF x.ndim = 1 THEN [error |-> "AxisError", rows |-> <<>>]
    ELSE [error |-> "", rows |-> <<RepeatCells(x.data, r)>>]

\* np.concatenate([A, B], axis=1): ValueError unless A and B have as many
\* rows; row k of the result is row k of A followed by row k of B.
ConcatAxis1(A, B) ==
    IF Len(A) # Len(B) THEN [error |-> "ValueError", rows |-> <<>>]
    ELSE [error |-> "", rows |-> [k \in 1..Len(A) |-> A[k] \o B[k]]]

\* Lines 93 and 95: np.concatenate([A, x_eval.repeat(len(A), 1)], axis=1).
A_x_eval(A, x) ==
    LET rep == Repeat(x, Len(A))
    IN IF rep.error # "" THEN rep ELSE ConcatAxis1(A, rep.rows)

\* eval_lc2st up to its call of eval_c2st: P_x_eval, and Q_x_eval when Q is
\* given (None otherwise); the first exception ends the call.
FeatureMatrices(a) ==
    LET Px == A_x_eval(a.P, a.x_eval)
        Qx == A_x_eval(a.Q, a.x_eval)
    IN IF Px.error # ""
       THEN [error |-> Px.error, P_x_eval |-> <<>>, Q_x_eval |-> <<>>]
       ELSE IF a.Q_none
       THEN [error |-> "", P_x_eval |-> Px.rows, Q_x_eval |-> <<>>]
       ELSE IF Qx.error # ""
       THEN [error |-> Qx.error, P_x_eval |-> <<>>, Q_x_eval |-> <<>>]
       ELSE [error |-> "", P_x_eval |-> Px.rows, Q_x_eval |-> Qx.rows]

\* A call eval_lc2st(P, x_eval, clf, Q).
EvalLc2st ==
    /\ fm_out.error = "not called"
    /\ fm_out' = FeatureMatrices(fm_in)
    /\ UNCHANGED <<fm_in, htVars, ppVars, lcVars, sbcVars, relVars, hpdVars>>

FmNotCalled == [error |-> "not called", P_x_eval |-> <<>>, Q_x_eval |-> <<>>]

\* The arguments of eval_lc2st: P of m rows, Q None or of m_Q rows, both of d
\* columns, and x_eval.
FmInit ==
    /\ \E kind \in {"ndarray", "tensor"}, ndim \in 1..2, d_x \in 1..MaxDim,
          d \in 1..MaxDim, m \in 0..MaxRows, m_Q \in 0..MaxRows,
          Q_none \in BOOLEAN :
         fm_in = [P |-> Sample("P", m, d),
                  Q |-> IF Q_none THEN <<>> ELSE Sample("Q", m_Q, d),
                  Q_none |-> Q_none,
                  x_eval |-> XEval(kind, ndim, d_x)]
    /\ fm_out = FmNotCalled

\* eval_lc2st is not called on its own.
FmIdle ==
    /\ fm_in = [P |-> <<>>, Q |-> <<>>, Q_none |-> TRUE,
                x_eval |-> XEval("tensor", 1, 1)]
    /\ fm_out = FmNotCalled

\* ------------- plots_neurips2022.py lines 67-70, plots_neurips2023_new.py 503-512
\* The least and the greatest entry of a non-empty sequence of integers.
MinOf(seq) == CHOOSE a \in Range(seq) : \A b \in Range(seq) : a <= b
MaxOf(seq) == CHOOSE a \in Range(seq) : \A b \in Range(seq) : a >= b

\* The bin (from 1) np.histogram puts value v in, for nbins bins of equal width
\* over [lo, hi]: every bin is closed on the left and open on the right but
\* the last, which is closed; if lo = hi the range is [lo - 0.5, hi + 0.5].
BinOf(v, lo, hi, nbins) ==
    IF lo = hi THEN (nbins \div 2) + 1
    ELSE IF v = hi THEN nbins
    ELSE (((v - lo) * nbins) \div (hi - lo)) + 1

\* np.histogram(ranks, bins=nbins)[0] for one rank or more: the number of
\* ranks per bin, over the range from the least to the greatest rank.
Histogram(ranks, nbins) ==
    [b \in 1..nbins |->
        Cardinality({k \in 1..Len(ranks) :
            BinOf(ranks[k], MinOf(ranks), MaxOf(ranks), nbins) = b})]

\* Mutant of CumSum: the counts themselves.
CumSum_none(counts) == counts

\* counts.cumsum()
RECURSIVE CumSum(_)
CumSum(counts) ==
    IF Len(counts) = 0 THEN <<>>
    ELSE LET front == CumSum(SubSeq(counts, 1, Len(counts) - 1))
         IN Append(front, (IF Len(front) = 0 THEN 0 ELSE front[Len(front)])
                          + counts[Len(counts)])

\* sbc_cdf / sbc_cdf.max(): every entry over the greatest (0 / 0 is NaN).
OverMax(cdf) ==
    [b \in 1..Len(cdf) |->
        IF MaxOf(cdf) = 0 THEN NaN ELSE Frac(cdf[b], MaxOf(cdf))]

\* The curve plotted for one parameter dimension.
sbc_curve(ranks, nbins) == OverMax(CumSum(Histogram(ranks, nbins)))

\* "for i in range(len(sbc_ranks[0]))" and its body for one dimension:
\* sbc_ranks[0] raises IndexError when there is no rank.
SbcCurve ==
    /\ ~sbc_out.computed
    /\ sbc_out' =
          IF Len(sbc_in.ranks) = 0
          THEN [computed |-> TRUE, error |-> "IndexError", curve |-> <<>>]
          ELSE [computed |-> TRUE, error |-> "",
                curve |-> sbc_curve(sbc_in.ranks, sbc_in.nbins)]
    /\ UNCHANGED <<sbc_in, htVars, ppVars, lcVars, fmVars, relVars, hpdVars>>

\* The ranks sbc_ranks[:, i] of one dimension and the grid length.
SbcInit ==
    /\ sbc_in \in [ranks : SeqUpTo(0..MaxRank, MaxRanks), nbins : 1..MaxBins]
    /\ sbc_out = [computed |-> FALSE, error |-> "", curve |-> <<>>]

\* No curve is plotted.
SbcIdle ==
    /\ sbc_in = [ranks |-> <<>>, nbins |-> 1]
    /\ sbc_out = [computed |-> FALSE, error |-> "", curve |-> <<>>]

\* ------------------------------ valdiags/test_utils.py, two calls side by side
\* The list nulls in the order the permutation order gives its positions.
Reordered(nulls, order) == [k \in 1..Len(nulls) |-> nulls[order[k] + 1]]

\* compute_pvalue(t1, nulls) and compute_pvalue(t2, nulls2), where nulls2 holds
\* the values of nulls in another order.
PvaluePair ==
    /\ rel_out.called = "none"
    /\ \E t1 \in 0..MaxStat, t2 \in 0..MaxStat,
          nulls \in SeqUpTo(0..MaxStat, MaxNulls) :
        \E order \in Perms(Len(nulls)) :
          /\ rel_in' = [t1 |-> t1, t2 |-> t2, nulls |-> nulls,
                        nulls2 |-> Reordered(nulls, order)]
          /\ rel_out' = [called |-> "compute_pvalue",
                         first |-> compute_pvalue(t1, nulls),
                         second |-> compute_pvalue(t2, Reordered(nulls, order))]
    /\ UNCHANGED <<htVars, ppVars, lcVars, fmVars, sbcVars, hpdVars>>

\* eval_htest twice with an estimator that returns the same statistics both
\* times, at the levels alpha1 and alpha2.
HtestPair ==
    /\ rel_out.called = "none"
    /\ \E ms \in SeqUpTo(MetricNames, MaxMetrics),
          a1 \in 0..AlphaDen, a2 \in 0..AlphaDen :
        \E data \in [Range(ms) -> 0..HtMaxStat],
           nulls \in [Range(ms) -> SeqUpTo(0..HtMaxStat, HtMaxNulls)] :
          /\ rel_in' = [metrics |-> ms, t_stat_data |-> data,
                        t_stats_null |-> nulls,
                        alpha1 |-> Frac(a1, AlphaDen),
                        alpha2 |-> Frac(a2, AlphaDen)]
          /\ rel_out' = [called |-> "eval_htest",
                         first |-> reject_loop(ms, data, nulls,
                                               Frac(a1, AlphaDen), EmptyDict),
                         second |-> reject_loop(ms, data, nulls,
                                                Frac(a2, AlphaDen), EmptyDict)]
    /\ UNCHANGED <<htVars, ppVars, lcVars, fmVars, sbcVars, hpdVars>>

\* Nothing has been called twice.
RelIdle ==
    /\ rel_in = <<>>
    /\ rel_out = [called |-> "none", first |-> <<>>, second |-> <<>>]

\* ------------------------------ valdiags/confidence_regions.py: hpd_region
\* The sum of the weights w at the grid points of S.
RECURSIVE SumAt(_, _)
SumAt(w, S) ==
    IF S = {} THEN 0
    ELSE LET i == CHOOSE j \in S : TRUE IN w[i] + SumAt(w, S \ {i})
Total(w) == SumAt(w, 1..Len(w))

Abs(a) == IF a < 0 THEN -a ELSE a

\* p_stars = np.linspace(0.99, 0, n): entry k (from 0) is PStarNum / PStarDen,
\* from 0.99 down to 0 in equal steps (the single entry 0.99 for n = 1).
PStarDen(n) == IF n >= 2 THEN 100 * (n - 1) ELSE 100
PStarNum(n, k) == IF n >= 2 THEN 99 * (n - 1 - k) ELSE 99

\* posterior_probs >= p_stars[k], with posterior_probs = w / sum(w).
AtLeast(w, n, k) ==
    {i \in 1..Len(w) : w[i] * PStarDen(n) >= PStarNum(n, k) * Total(w)}

\* np.abs(level - confidence_level), for a level of num / Total(w): the
\* distance times Total(w) * LevelDen.
Distance(a, num) == Abs(num * LevelDen - a.confidence_level * Total(a.w))
\* np.abs(level - confidence_level) > tol
BeyondTol(a, num) == Distance(a, num) > a.tol * Total(a.w)

\* Mutant of update_level: the level just examined is always taken.
update_level_last(a, current, new) == new

\* Lines 27-30: the new level replaces the current one if it is strictly
\* closer to confidence_level.
update_level(a, current, new) ==
    IF Distance(a, new) < Distance(a, current) THEN new ELSE current

\* Lines 20-31, one iteration of the while loop: the level of threshold idx
\* is computed and recorded.
HpdExamine ==
    /\ hpd_pc = "loop"
    /\ BeyondTol(hpd_in, current_confidence_level)
    /\ idx # hpd_in.n_p_stars
    /\ LET new_confidence_level ==
               SumAt(hpd_in.w, AtLeast(hpd_in.w, hpd_in.n_p_stars, idx))
       IN /\ new_confidence_levels' =
                Append(new_confidence_levels, new_confidence_level)
          /\ current_confidence_level' =
                update_level(hpd_in, current_confidence_level,
                             new_confidence_level)
    /\ idx' = idx + 1
    /\ UNCHANGED <<hpd_in, hpd_pc, hpd_region_out>>
    /\ UNCHANGED <<htVars, ppVars, lcVars, fmVars, sbcVars, relVars>>

\* Lines 33-37: the return statement.  p_stars[idx - 1] is the last entry of
\* p_stars for idx = 0 and raises IndexError when p_stars is empty.
HpdReturnValue ==
    IF hpd_in.n_p_stars = 0
    THEN /\ hpd_pc' = "raised"
         /\ hpd_region_out' = {}
    ELSE /\ hpd_pc' = "returned"
         /\ hpd_region_out' =
               AtLeast(hpd_in.w, hpd_in.n_p_stars,
                       IF idx = 0 THEN hpd_in.n_p_stars - 1 ELSE idx - 1)

\* Line 20: the loop condition is false; the function returns.
HpdWithinTol ==
    /\ hpd_pc = "loop"
    /\ ~BeyondTol(hpd_in, current_confidence_level)
    /\ HpdReturnValue
    /\ UNCHANGED <<hpd_in, idx, current_confidence_level,
                   new_confidence_levels>>
    /\ UNCHANGED <<htVars, ppVars, lcVars, fmVars, sbcVars, relVars>>

\* Lines 21-22: no threshold is left; break, and the function returns.
HpdBreak ==
    /\ hpd_pc = "loop"
    /\ BeyondTol(hpd_in, current_confidence_level)
    /\ idx = hpd_in.n_p_stars
    /\ HpdReturnValue
    /\ UNCHANGED <<hpd_in, idx, current_confidence_level,
                   new_confidence_levels>>
    /\ UNCHANGED <<htVars, ppVars, lcVars, fmVars, sbcVars, relVars>>

\* Lines 15-19: the state before the loop, for probabilities that are not all
\* zero; current_confidence_level = 1 is Total(w) / Total(w).
HpdInit ==
    /\ hpd_in \in [w : SeqUpTo(0..MaxWeight, MaxGridPts),
                    confidence_level : 0..LevelDen, tol : 0..MaxTol,
                    n_p_stars : 0..MaxPStars]
    /\ Total(hpd_in.w) > 0
    /\ hpd_pc = "loop"
    /\ idx = 0
    /\ current_confidence_level = Total(hpd_in.w)
    /\ new_confidence_levels = <<>>
    /\ hpd_region_out = {}

\* hpd_region is not called.
HpdIdle ==
    /\ hpd_in = [w |-> <<1>>, confidence_level |-> LevelDen, tol |-> 0,
                 n_p_stars |-> 0]
    /\ hpd_pc = "idle"
    /\ idx = 0
    /\ current_confidence_level = 1
    /\ new_confidence_levels = <<>>
    /\ hpd_region_out = {}

ExtIdle == FmIdle /\ SbcIdle /\ RelIdle /\ HpdIdle

\* ------------------------------------------------------- specifications
HtPpInit == HtInit /\ PpInit /\ LcNoData /\ ExtIdle

HtNext == ComputePvalue \/ EvalHtest
SpecHtest == HtPpInit /\ [][HtNext]_vars

PpNext == PPVals
SpecPP == HtPpInit /\ [][PpNext]_vars

Init == HtInit /\ PpInit /\ LcInit /\ ExtIdle

Next ==
    \/ CallLc2stScores
    \/ EnsembleStep
    \/ EnsembleFinish
    \/ CVStep
    \/ CVFinish
    \/ CallTStatsLc2st
    \/ ObservedReturned
    \/ NullTrialPrecomputed
    \/ NullTrialCall
    \/ NullTrialReturned
    \/ TStatsReturn

Spec == Init /\ [][Next]_vars

\* lc2st_scores and t_stats_lc2st for the callers of Callers, with a fit that
\* may fail.
InitScores == HtInit /\ PpInit /\ LcInitScores /\ ExtIdle
SpecScores == InitScores /\ [][Next]_vars

\* eval_lc2st on its own, for numpy and torch values of x_eval.
InitEval ==
    HtInit /\ PpInit /\ LcNoData /\ FmInit /\ SbcIdle /\ RelIdle /\ HpdIdle
NextEval == EvalLc2st
SpecEval == InitEval /\ [][NextEval]_vars

\* The SBC curve of one parameter dimension.
InitSbc ==
    HtInit /\ PpInit /\ LcNoData /\ FmIdle /\ SbcInit /\ RelIdle /\ HpdIdle
NextSbc == SbcCurve
SpecSbc == InitSbc /\ [][NextSbc]_vars

\* compute_pvalue and eval_htest, two calls side by side.
NextRel == PvaluePair \/ HtestPair
SpecRel == HtPpInit /\ [][NextRel]_vars

\* hpd_region from the start of its threshold search on; the loop and the
\* return run to their end once the function is called.
InitHpd ==
    HtInit /\ PpInit /\ LcNoData /\ FmIdle /\ SbcIdle /\ RelIdle /\ HpdInit
NextHpd == HpdExamine \/ HpdWithinTol \/ HpdBreak
SpecHpd == InitHpd /\ [][NextHpd]_vars
SpecHpdLive == SpecHpd /\ WF_vars(NextHpd)

\* ------------------------------------------------- claims: test_utils.py
\* The null values of the last compute_pvalue call that are strictly greater
\* than, and those equal to, the observed statistic.
NullsAbove == {i \in 1..Len(t_stats_null) : t_stats_null[i] > t_stat_est}
NullsEqual == {i \in 1..Len(t_stats_null) : t_stats_null[i] = t_stat_est}
PvalueReturned == last_call = "compute_pvalue"
Zero == Frac(0, 1)
One == Frac(1, 1)

\* C1: for a non-empty null sequence the p-value is the number of null values
\* strictly greater than t divided by the length of the sequence; a null value
\* equal to t does not count.
C1_PvalueIsFractionAbove ==
    (PvalueReturned /\ Len(t_stats_null) > 0) =>
        FEq(p_value, Frac(Cardinality(NullsAbove), Len(t_stats_null)))

\* A call with a null value equal to t, one above it and one below it.
C1_Witness ==
    /\ PvalueReturned
    /\ NullsEqual # {}
    /\ NullsAbove # {}
    /\ \E i \in 1..Len(t_stats_null) : t_stats_null[i] < t_stat_est

\* C2 as stated: the p-value lies in [0,1] for every null sequence, the empty
\* one included.
C2_PvalueInUnitInterval_AnySequence ==
    PvalueReturned => (FLeq(Zero, p_value) /\ FLeq(p_value, One))

\* C2 amended: the p-value lies in [0,1] for every non-empty null sequence.
C2_PvalueInUnitInterval_NonEmpty ==
    (PvalueReturned /\ Len(t_stats_null) > 0) =>
        (FLeq(Zero, p_value) /\ FLeq(p_value, One))

\* A call on several null values whose p-value is strictly inside (0,1).
C2_Witness ==
    /\ PvalueReturned
    /\ Len(t_stats_null) > 1
    /\ FLess(Zero, p_value)
    /\ FLess(p_value, One)

\* C3 as stated: the p-value is 0 iff t exceeds every null value.
C3_ZeroIffExceedsAll ==
    PvalueReturned =>
        (FEq(p_value, Zero) <=>
            \A i \in 1..Len(t_stats_null) : t_stat_est > t_stats_null[i])

\* C3 amended: for a non-empty null sequence the p-value is 0 iff t is greater
\* than or equal to every null value.
C3_ZeroIffAtLeastAll ==
    (PvalueReturned /\ Len(t_stats_null) > 0) =>
        (FEq(p_value, Zero) <=>
            \A i \in 1..Len(t_stats_null) : t_stat_est >= t_stats_null[i])

\* A call whose p-value is 0 although a null value equals t.
C3_Witness ==
    /\ PvalueReturned
    /\ NullsEqual # {}
    /\ FEq(p_value, Zero)

\* C4 as stated: the p-value is 1 iff t is strictly less than every null value.
C4_OneIffBelowAll ==
    PvalueReturned =>
        (FEq(p_value, One) <=>
            \A i \in 1..Len(t_stats_null) : t_stat_est < t_stats_null[i])

\* C4 amended: for a non-empty null sequence the p-value is 1 iff t is strictly
\* less than every null value.
C4_OneIffBelowAll_NonEmpty ==
    (PvalueReturned /\ Len(t_stats_null) > 0) =>
        (FEq(p_value, One) <=>
            \A i \in 1..Len(t_stats_null) : t_stat_est < t_stats_null[i])

\* A call on several distinct null values, all above t, whose p-value is 1.
C4_Witness ==
    /\ PvalueReturned
    /\ Len(t_stats_null) > 1
    /\ \E i, j \in 1..Len(t_stats_null) : t_stats_null[i] # t_stats_null[j]
    /\ FEq(p_value, One)

\* The null values of metric m handed to eval_htest that are strictly greater
\* than the observed statistic of m.
NullsAboveFor(m) ==
    {i \in 1..Len(t_stats_null_m[m]) : t_stats_null_m[m][i] > t_stat_data[m]}

\* The fraction of null values of m above the observed statistic is defined
\* and strictly less than conf_alpha.
PvalueBelowAlpha(m) ==
    /\ Len(t_stats_null_m[m]) > 0
    /\ Cardinality(NullsAboveFor(m)) * conf_alpha.den
          < conf_alpha.num * Len(t_stats_null_m[m])

\* C5: eval_htest returns one boolean per requested metric, True iff the
\* p-value of that metric is strictly less than conf_alpha; nothing is rejected
\* at conf_alpha = 0.
C5_RejectIffPvalueBelowAlpha ==
    last_call = "eval_htest" =>
        /\ DOMAIN reject = Range(metrics)
        /\ \A m \in Range(metrics) :
              /\ reject[m] \in BOOLEAN
              /\ reject[m] <=> PvalueBelowAlpha(m)
              /\ conf_alpha.num = 0 => ~reject[m]

\* A call on two metrics, one rejected, the other kept with a p-value equal to
\* conf_alpha.
C5_Witness ==
    /\ last_call = "eval_htest"
    /\ \E m1, m2 \in Range(metrics) :
          /\ m1 # m2
          /\ reject[m1]
          /\ ~reject[m2]
          /\ Len(t_stats_null_m[m2]) > 0
          /\ Cardinality(NullsAboveFor(m2)) * conf_alpha.den
                = conf_alpha.num * Len(t_stats_null_m[m2])
          /\ conf_alpha.num > 0

\* The null sequence of the last compute_pvalue call has zero variance: it is
\* not empty and all its values are identical.
DegenerateNull ==
    /\ Len(t_stats_null) > 0
    /\ \A i, j \in 1..Len(t_stats_null) : t_stats_null[i] = t_stats_null[j]

\* The same for the null sequence of metric m in the last eval_htest call.
DegenerateNullFor(m) ==
    /\ Len(t_stats_null_m[m]) > 0
    /\ \A i, j \in 1..Len(t_stats_null_m[m]) :
          t_stats_null_m[m][i] = t_stats_null_m[m][j]

\* C19: when all null statistics passed to compute_pvalue / eval_htest are
\* identical, the call returns without raising and a warning about the
\* degenerate null has been issued with the result.
C19_DegenerateNullIsWarned ==
    /\ (PvalueReturned /\ DegenerateNull) => Len(warnings_log) > 0
    /\ (/\ last_call = "eval_htest"
        /\ \E m \in Range(metrics) : DegenerateNullFor(m))
          => Len(warnings_log) > 0

\* --------------------------------------------------- claims: pp_plots.py
StrictlyIncreasing(s) == \A i, j \in 1..Len(s) : i < j => s[i] < s[j]
PitAtMost(a) == {j \in 1..Len(PIT_values) : PIT_values[j] <= a}
InUnitInterval(x) == FLeq(Zero, x) /\ FLeq(x, One)
NonDecreasing(s) == \A i, j \in 1..Len(s) : i < j => FLeq(s[i], s[j])

\* C6 as stated: on a strictly increasing grid the values of PP_vals are
\* non-decreasing and lie in [0,1], for every set of PIT values.
C6_MonotoneInUnitInterval_AnyPit ==
    (pp_called /\ StrictlyIncreasing(alphas)) =>
        /\ \A i \in 1..Len(z) : InUnitInterval(z[i])
        /\ NonDecreasing(z)

\* C6 amended: the same for every non-empty set of PIT values.
C6_MonotoneInUnitInterval_NonEmptyPit ==
    (pp_called /\ StrictlyIncreasing(alphas) /\ Len(PIT_values) > 0) =>
        /\ \A i \in 1..Len(z) : InUnitInterval(z[i])
        /\ NonDecreasing(z)

\* A call on a strictly increasing grid of several points along which the
\* returned values rise strictly.
C6_Witness ==
    /\ pp_called
    /\ Len(alphas) > 1
    /\ StrictlyIncreasing(alphas)
    /\ Len(PIT_values) > 1
    /\ \E i \in 1..(Len(z) - 1) : FLess(z[i], z[i + 1])

\* The i-th returned value is the number of PIT values <= alphas[i] divided by
\* the number of PIT values; 0 below every PIT value, 1 at or above all.
PPValueIsFractionAtMost(i) ==
    /\ ~z[i].nan
    /\ z[i].num * Len(PIT_values)
          = Cardinality(PitAtMost(alphas[i])) * z[i].den
    /\ (\A j \in 1..Len(PIT_values) : alphas[i] < PIT_values[j])
          => FEq(z[i], Zero)
    /\ (\A j \in 1..Len(PIT_values) : alphas[i] >= PIT_values[j])
          => FEq(z[i], One)

\* C7 as stated: one value per grid point, in grid order, each the fraction of
\* PIT values <= that grid point.
C7_FractionAtMost_AnyPit ==
    pp_called =>
        /\ Len(z) = Len(alphas)
        /\ \A i \in 1..Len(alphas) : PPValueIsFractionAtMost(i)

\* C7 amended: the same for a non-empty array of PIT values.
C7_FractionAtMost_NonEmptyPit ==
    (pp_called /\ Len(PIT_values) > 0) =>
        /\ Len(z) = Len(alphas)
        /\ \A i \in 1..Len(alphas) : PPValueIsFractionAtMost(i)

\* A call whose grid (not sorted) has a point equal to a PIT value that is not
\* the largest, a point below every PIT value and a point above all.
C7_Witness ==
    /\ pp_called
    /\ Len(PIT_values) > 1
    /\ \E i, k, l \in 1..Len(alphas) :
          /\ \E j \in 1..Len(PIT_values) : alphas[i] = PIT_values[j]
          /\ FLess(Zero, z[i]) /\ FLess(z[i], One)
          /\ FEq(z[k], Zero)
          /\ FEq(z[l], One)
          /\ k > l

\* --------------------------------------------------- claims: localC2ST.py
\* The running or finished invocation of lc2st_scores is cross-validated and
\* its split did not raise.
CrossValidated == sc.cross_val /\ pc \in {"cv", "returned"}
AllIndices == 0..(Len(sc.P.rows) - 1)

\* The entries of unit_log written by the current invocation of lc2st_scores.
CurrentUnits ==
    {k \in 1..Len(unit_log) : unit_log[k].unit[1] = sc.callno
                              /\ unit_log[k].mode = "cv"}

\* C8: the held-out index sets of the n_folds folds are pairwise disjoint,
\* their union is {0..n-1}, every fold's size is within 1 of n / n_folds, and
\* fold f of the loop holds out the f-th of these sets.
C8_FoldsPartitionIndices ==
    CrossValidated =>
        /\ Len(folds) = sc.n_folds
        /\ \A f, g \in 1..Len(folds) : f # g => folds[f] \cap folds[g] = {}
        /\ UNION {folds[f] : f \in 1..Len(folds)} = AllIndices
        /\ \A f \in 1..Len(folds) :
              /\ sc.n_folds * Cardinality(folds[f])
                    <= Len(sc.P.rows) + sc.n_folds
              /\ sc.n_folds * Cardinality(folds[f])
                    >= Len(sc.P.rows) - sc.n_folds
        /\ \A k \in CurrentUnits :
              unit_log[k].held_out = folds[unit_log[k].unit[2] + 1]

\* A finished cross-validation whose folds differ in size, over indices the
\* shuffle has not left in place.
C8_Witness ==
    /\ CrossValidated
    /\ pc = "returned"
    /\ Len(sc.P.rows) % sc.n_folds # 0
    /\ Cardinality(CurrentUnits) = sc.n_folds
    /\ shuffled[1] # 0

\* The rows of array A at the indices of S, beside the same rows of X.
JointRows(A, X, S) == {<<A.rows[j + 1], X.rows[j + 1]>> : j \in S}
\* The rows of array A at the indices of S, beside x_eval.
EvalRows(A, S) == {<<A.rows[j + 1], x_eval_row>> : j \in S}
SampleOf(rows) == {r[1] : r \in rows}

\* C9: without P_eval and Q_eval, the classifier of a fold is fitted on
\* exactly the rows of P, Q, x_P, x_Q outside the held-out set and evaluated
\* only on held-out rows; no row is both; P and Q give as many training rows.
C9_TrainOutsideEvalInsideFold ==
    (CrossValidated /\ sc.P_eval.none /\ sc.Q_eval.none) =>
        \A k \in CurrentUnits :
            LET u == unit_log[k]
                H == u.held_out
                T == AllIndices \ H
                c == heap[u.clf]
            IN /\ Range(c.train_P) = JointRows(sc.P, sc.x_P, T)
               /\ Range(c.train_Q) = JointRows(sc.Q, sc.x_Q, T)
               /\ heap[u.clf].fit_units = {u.unit}
               /\ heap[u.clf].eval_units = {u.unit}
               /\ EvalRows(sc.P, H) \subseteq u.eval
               /\ u.eval \subseteq EvalRows(sc.P, H) \cup EvalRows(sc.Q, H)
               /\ SampleOf(Range(c.train_P) \cup Range(c.train_Q))
                     \cap SampleOf(u.eval) = {}
               /\ Len(c.train_P) = Len(c.train_Q)

\* A finished cross-validation without P_eval and Q_eval that evaluated both
\* classes, with a fold holding out several rows.
C9_Witness ==
    /\ CrossValidated
    /\ pc = "returned"
    /\ sc.P_eval.none /\ sc.Q_eval.none
    /\ ~sc.single_class_eval
    /\ Cardinality(CurrentUnits) > 1
    /\ \E k \in CurrentUnits :
          /\ Cardinality(unit_log[k].held_out) > 1
          /\ Cardinality(unit_log[k].eval) > 2

AccuracyOf(u) == Val([score |-> u.clf, rows |-> u.eval])
ProbaOf(u) == Val([predict_proba |-> u.clf, rows |-> u.eval])

\* One direct train_lc2st followed by eval_lc2st, on the data of the current
\* invocation of lc2st_scores and from the state the classifier was built in.
DirectTrainEval ==
    LET unit == <<sc.callno, 0>>
        tr == train_lc2st(SubSeq(heap, 1, classifier), classifier, unit,
                          sc.P, sc.Q, sc.x_P, sc.x_Q)
    IN eval_lc2st(tr.heap, tr.clf, unit, sc.P_eval, sc.Q_eval,
                  sc.single_class_eval)

\* C11: lc2st_scores with cross_val=False and n_ensemble=1 returns the
\* probabilities of one direct train_lc2st followed by eval_lc2st on the same
\* data, its accuracy under every name that holds "accuracy", and under every
\* other name the metric of those probabilities; it has trained nothing else.
C11_SingleMemberIsDirect ==
    (pc = "returned" /\ ~sc.cross_val /\ sc.n_ensemble = 1) =>
        /\ heap = DirectTrainEval.heap
        /\ probas = DirectTrainEval.proba
        /\ DOMAIN scores = Range(sc.metrics)
        /\ \A m \in Range(sc.metrics) :
              scores[m] =
                  IF HasAccuracy(m) THEN DirectTrainEval.accuracy
                  ELSE compute_metric(DirectTrainEval.proba, <<m>>,
                                      sc.single_class_eval).scores[m]

\* A returned single-member call that asked for the accuracy and another
\* metric and evaluated both classes.
C11_Witness ==
    /\ api = "lc2st_scores"
    /\ pc = "returned"
    /\ ~sc.cross_val
    /\ sc.n_ensemble = 1
    /\ ~sc.single_class_eval
    /\ ~sc.Q_eval.none
    /\ sc.metrics = <<"probas_mean", "accuracy">>
    /\ Len(unit_log) = 1

\* The entries of unit_log written by lc2st_scores on the observed data of a
\* t_stats_lc2st call, and the arrays of that call.
ObservedUnits == {k \in 1..Len(unit_log) : unit_log[k].unit[1] = 0}
ObservedReturn == api = "t_stats_lc2st" /\ phase \in {"null", "done"}
AllRows == 0..(n_rows - 1)
ArgP == Array("P", 0, n_rows)
ArgQ == Array("Q", 0, n_rows)
Arg_x_P == Array("x_P", 0, n_rows)
Arg_x_Q == Array("x_Q", 0, n_rows)
ArgP_eval == OptArray(targs.flags.has_P_eval, "P_eval", targs.n_test)

\* C12: once t_stats_lc2st has its observed statistic, it comes from exactly
\* n_ensemble_obs classifiers, each trained on all rows of P, x_P, Q, x_Q and
\* evaluated on the rows of P_eval at x_eval and on no training row, and
\* every observed statistic named "accuracy" is the mean of their accuracies
\* (one scalar); for a caller who does not ask for in_sample, whatever other
\* options are given or left at their defaults.
C12_ObservedIsEnsembleOnPEval ==
    (ObservedReturn /\ ~targs.flags.in_sample) =>
        /\ Cardinality(ObservedUnits) = targs.n_ensemble_obs
        /\ \A k \in ObservedUnits :
              LET u == unit_log[k]
                  c == heap[u.clf]
              IN /\ u.mode = "ensemble"
                 /\ Range(c.train_P) = JointRows(ArgP, Arg_x_P, AllRows)
                 /\ Range(c.train_Q) = JointRows(ArgQ, Arg_x_Q, AllRows)
                 /\ EvalRows(ArgP_eval, 0..(Len(ArgP_eval.rows) - 1))
                        \subseteq u.eval
                 /\ SampleOf(Range(c.train_P) \cup Range(c.train_Q))
                        \cap SampleOf(u.eval) = {}
        /\ \A m \in DOMAIN t_stats_ensemble :
              HasAccuracy(m) =>
                  t_stats_ensemble[m] =
                      MeanAxis0([k \in 1..targs.n_ensemble_obs |->
                                    AccuracyOf(unit_log[k])])

\* C13: every evaluation made without Q handed single_class_eval = True to
\* eval_c2st and scored rows of P only, whatever the caller passed; every
\* evaluation made with Q handed on the caller's value.
C13_ForcedSingleClassWithoutQ ==
    \A k \in 1..Len(unit_log) :
        LET u == unit_log[k]
        IN /\ u.Q_none =>
                 /\ u.flag_used
                 /\ \A r \in SampleOf(u.eval) : r[1] \in {"P", "P_eval"}
           /\ ~u.Q_none => u.flag_used = u.flag_arg

\* An evaluation without Q by a caller who passed single_class_eval=False.
C13_Witness ==
    /\ Len(unit_log) > 0
    /\ unit_log[1].Q_none
    /\ ~unit_log[1].flag_arg
    /\ unit_log[1].flag_used
    /\ unit_log[1].eval # {}

\* The classifier configuration, the options handed on through kwargs, the
\* metrics, the single_class_eval flag and x_eval of a call of lc2st_scores.
Configuration(a) ==
    [clf_kwargs |-> a.clf_kwargs, cross_val |-> a.cross_val,
     n_folds |-> a.n_folds, in_sample |-> a.in_sample, metrics |-> a.metrics,
     single_class_eval |-> a.single_class_eval, x_eval |-> a.x_eval]

\* C14: inside t_stats_lc2st every call of lc2st_scores, for a null trial as
\* for the observed data, has the configuration of the call on the observed
\* data; every classifier is built with that clf_kwargs, and every evaluation
\* gets that single_class_eval flag and rows at x_eval only.
C14_SameConfigurationObservedAndNull ==
    (api = "t_stats_lc2st" /\ phase # "none") =>
        /\ Configuration(sc) = Configuration(ObservedCall(targs))
        /\ \A c \in 1..Len(heap) :
              heap[c].config = ObservedCall(targs).clf_kwargs
        /\ \A k \in 1..Len(unit_log) :
              /\ unit_log[k].flag_arg = ObservedCall(targs).single_class_eval
              /\ \A r \in unit_log[k].eval : r[2] = x_eval_row

\* A finished t_stats_lc2st of a caller with a classifier configuration of
\* its own, whose observed statistic took two classifiers and whose null
\* trial trained one.
C14_Witness ==
    /\ api = "t_stats_lc2st"
    /\ phase = "done"
    /\ targs.clf_kwargs = "alpha=1e-4"
    /\ ~targs.flags.single_class_eval
    /\ sc.callno = 1
    /\ \E k, l \in 1..Len(unit_log) :
          /\ unit_log[k].unit = <<0, 1>>
          /\ unit_log[l].unit = <<1, 0>>

\* t_stats_lc2st is between two null trials or has returned.
BetweenTrials ==
    /\ api = "t_stats_lc2st"
    /\ \/ phase = "done"
       \/ phase = "null" /\ pc = "idle"

\* No name is listed twice in the requested test statistics.
DistinctNames(names) ==
    \A i, j \in 1..Len(names) : i # j => names[i] # names[j]

\* The entries of unit_log written in null trial t (from 1), in loop order,
\* and the t-th null sample beside the t-th null conditioning sample.
TrialUnits(t) ==
    LET K == {k \in 1..Len(unit_log) : unit_log[k].unit[1] = t}
    IN [i \in 1..Cardinality(K) |->
           unit_log[CHOOSE k \in K : unit_log[k].unit[2] = i - 1]]
NullJoint(t) ==
    JointRows(Array("list_null_samples_P", t, n_rows),
              Array("list_null_samples_x_P", t, n_rows), AllRows)

\* The probabilities and the score under name m that lc2st_scores returns
\* from the units of null trial t.
TrialProbas(t) ==
    IF targs.flags.cross_val
    THEN [i \in 1..Len(TrialUnits(t)) |-> ProbaOf(TrialUnits(t)[i])]
    ELSE MeanAxis0(<<ProbaOf(TrialUnits(t)[1])>>)
TrialMetric(u_accuracy, u_proba, m) ==
    IF HasAccuracy(m) THEN u_accuracy
    ELSE compute_metric(u_proba, <<m>>,
                        targs.flags.single_class_eval).scores[m]
TrialScore(t, m) ==
    IF targs.flags.cross_val
    THEN [i \in 1..Len(TrialUnits(t)) |->
             TrialMetric(AccuracyOf(TrialUnits(t)[i]), ProbaOf(TrialUnits(t)[i]), m)]
    ELSE TrialMetric(MeanAxis0(<<AccuracyOf(TrialUnits(t)[1])>>),
                     TrialProbas(t), m)

\* C15 as stated: for any list of test statistics, t_stats_lc2st returns for
\* each statistic one null value per null sample, and as many null
\* probabilities.
C15_OneNullValuePerTrial_AnyList ==
    (api = "t_stats_lc2st" /\ phase = "done") =>
        /\ Len(probas_null) = n_null
        /\ \A m \in Range(targs.test_stats) :
              Len(t_stats_null_lc[m]) = n_null

\* C15 amended: for a list of test statistics that names none twice, after t
\* null trials every statistic has t null values and there are t null
\* probabilities (one per null sample at the return); without precomputed
\* probabilities the classifiers of trial t are fitted on rows of P beside
\* x_P and of the t-th null sample beside the t-th null conditioning sample,
\* and the t-th null value and the t-th null probabilities are those of
\* trial t.
C15_OneNullValuePerTrial_DistinctNames ==
    (BetweenTrials /\ DistinctNames(targs.test_stats)) =>
        /\ phase = "done" => trial = n_null
        /\ Len(probas_null) = trial
        /\ \A m \in Range(targs.test_stats) : Len(t_stats_null_lc[m]) = trial
        /\ ~targs.precomputed =>
              \A t \in 1..trial :
                 /\ Len(TrialUnits(t)) > 0
                 /\ \A i \in 1..Len(TrialUnits(t)) :
                       LET c == heap[TrialUnits(t)[i].clf]
                       IN /\ Len(c.train_Q) > 0 \/ targs.flags.cross_val
                          /\ Range(c.train_Q) \subseteq NullJoint(t)
                          /\ Range(c.train_P)
                                \subseteq JointRows(ArgP, Arg_x_P, AllRows)
                          /\ ~targs.flags.cross_val =>
                                Range(c.train_Q) = NullJoint(t)
                 /\ probas_null[t] = TrialProbas(t)
                 /\ \A m \in Range(targs.test_stats) :
                       t_stats_null_lc[m][t] = TrialScore(t, m)

\* A returned t_stats_lc2st with two test statistics and two null trials,
\* each of which trained a classifier.
C15_Witness ==
    /\ api = "t_stats_lc2st"
    /\ phase = "done"
    /\ targs.test_stats = <<"probas_mean", "accuracy">>
    /\ ~targs.precomputed
    /\ trial = 2
    /\ Len(TrialUnits(1)) > 0
    /\ Len(TrialUnits(2)) > 0

\* The array the caller supplied for null trial t (from 1).
Supplied(t) == [precomputed_probas_null |-> t - 1]

\* C16: with precomputed_probas_null no classifier is built, trained or
\* evaluated for a null trial; the null probabilities are the supplied
\* arrays, unchanged and in order; every null statistic is compute_metric of
\* a supplied array alone, the t-th one of the t-th array when no name is
\* listed twice.
C16_PrecomputedNullsTrainNothing ==
    (api = "t_stats_lc2st" /\ targs.precomputed) =>
        /\ sc.callno = 0
        /\ \A k \in 1..Len(unit_log) : unit_log[k].unit[1] = 0
        /\ phase # "obs" => heap = SubSeq(heap, 1, 1 + Len(unit_log))
        /\ \A t \in 1..Len(probas_null) :
              probas_null[t] = Supplied(t)
        /\ BetweenTrials =>
              \A m \in Range(targs.test_stats) :
                 /\ \A j \in 1..Len(t_stats_null_lc[m]) :
                       \E t \in 1..trial :
                          t_stats_null_lc[m][j] =
                              compute_metric(Supplied(t),
                                             targs.test_stats,
                                             targs.flags.single_class_eval
                                            ).scores[m]
                 /\ DistinctNames(targs.test_stats) =>
                       /\ Len(t_stats_null_lc[m]) = trial
                       /\ \A t \in 1..trial :
                             t_stats_null_lc[m][t] =
                                 compute_metric(Supplied(t),
                                                targs.test_stats,
                                                targs.flags.single_class_eval
                                               ).scores[m]

\* A returned t_stats_lc2st with two precomputed null probability arrays and
\* two test statistics, whose observed statistic trained two classifiers.
C16_Witness ==
    /\ api = "t_stats_lc2st"
    /\ phase = "done"
    /\ targs.precomputed
    /\ trial = 2
    /\ Len(probas_null) = 2
    /\ targs.test_stats = <<"probas_mean", "accuracy">>
    /\ Len(unit_log) = 2

\* The entry of unit_log written by fold i (from 1) of the current invocation
\* of lc2st_scores.
FoldUnit(i) ==
    unit_log[CHOOSE k \in 1..Len(unit_log) :
                 unit_log[k].unit = <<sc.callno, i - 1>>]

\* C17 as stated: for any list of metric names, cross-validated lc2st_scores
\* returns a dict whose keys are the requested names and whose values are
\* sequences of n_folds values, and a list of n_folds probability arrays.
C17_OneValuePerFold_AnyList ==
    (pc = "returned" /\ sc.cross_val) =>
        /\ DOMAIN scores = Range(sc.metrics)
        /\ \A m \in Range(sc.metrics) : Len(scores[m]) = sc.n_folds
        /\ Len(probas) = sc.n_folds

\* C17 amended: for a list of metric names that names none twice, the keys
\* are the requested names, the value of each name holds n_folds values, the
\* i-th one being the metric of fold i, and probas holds the n_folds
\* probability arrays of the folds in fold order.
C17_OneValuePerFold_DistinctNames ==
    (pc = "returned" /\ sc.cross_val /\ DistinctNames(sc.metrics)) =>
        /\ DOMAIN scores = Range(sc.metrics)
        /\ Len(probas) = sc.n_folds
        /\ \A i \in 1..sc.n_folds : probas[i] = ProbaOf(FoldUnit(i))
        /\ \A m \in Range(sc.metrics) :
              /\ Len(scores[m]) = sc.n_folds
              /\ \A i \in 1..sc.n_folds :
                    scores[m][i] =
                        IF HasAccuracy(m) THEN AccuracyOf(FoldUnit(i))
                        ELSE compute_metric(ProbaOf(FoldUnit(i)), <<m>>,
                                            sc.single_class_eval).scores[m]

\* A returned cross-validation over three folds for two metric names.
C17_Witness ==
    /\ api = "lc2st_scores"
    /\ pc = "returned"
    /\ sc.cross_val
    /\ sc.n_folds = 3
    /\ sc.metrics = <<"probas_mean", "accuracy">>
    /\ Len(unit_log) = 3

\* C18: a classifier fit that fails in a fold, an ensemble member or a null
\* trial does not make lc2st_scores / t_stats_lc2st raise: the invocation
\* goes on to return the results of the other units.
C18_FitFailureDoesNotRaise ==
    (api # "none" /\ failing_fit > 0) =>
        ~(pc = "raised" /\ error = "ClassifierFitFailure")

\* C20: with a requested metric name that is not a known name, no classifier
\* is ever trained, no value is stored under that name and the call does not
\* return.
C20_UnknownMetricFailsBeforeTraining ==
    \A m \in Range(sc.metrics) :
        (api # "none" /\ m \notin KnownMetrics) =>
            /\ NumFits(heap) = 0
            /\ m \in DOMAIN scores => scores[m] = <<>>
            /\ pc # "returned"

\* ------------------------------------------- claims: lc2st_scores, part 3
\* C21: a cross-validated lc2st_scores whose n_folds exceeds the number of
\* rows of P ends with an error at once: no classifier has been trained,
\* nothing has been evaluated, no score or probability has been stored and
\* neither lc2st_scores nor t_stats_lc2st returns.
TooManyFolds == api # "none" /\ sc.cross_val /\ sc.n_folds > Len(sc.P.rows)
C21_TooManyFoldsFailsBeforeTraining ==
    TooManyFolds =>
        /\ pc = "raised"
        /\ error = "ValueError"
        /\ \A c \in 1..Len(heap) : heap[c].fit_units = {} /\ heap[c].eval_units = {}
        /\ unit_log = <<>>
        /\ probas = <<>>
        /\ \A m \in DOMAIN scores : scores[m] = <<>>
        /\ t_stats_ensemble = <<>>
        /\ phase \in {"none", "obs"}

\* A cross-validation over three folds of two rows has raised.
C21_Witness ==
    /\ TooManyFolds
    /\ pc = "raised"
    /\ sc.n_folds = 3
    /\ Len(sc.P.rows) = 2

\* ------------------------------------------------- claims: eval_lc2st
\* C22: eval_lc2st builds, for P of m rows and d columns and x_eval of d_x
\* entries, a matrix of m rows and d + d_x columns whose i-th row is the i-th
\* row of P followed by x_eval; and the same for Q when Q is given.
RowsWithXEval(A, M) ==
    /\ Len(M) = Len(A)
    /\ \A i \in 1..Len(A) :
          /\ Len(M[i]) = Len(A[i]) + Len(fm_in.x_eval.data)
          /\ M[i] = A[i] \o fm_in.x_eval.data
C22_RowsAreSampleThenXEval ==
    fm_out.error # "not called" =>
        /\ fm_out.error = ""
        /\ RowsWithXEval(fm_in.P, fm_out.P_x_eval)
        /\ ~fm_in.Q_none => RowsWithXEval(fm_in.Q, fm_out.Q_x_eval)

\* ------------------------------------------- claims: lc2st_scores, part 4
\* The entries of unit_log written by the members of the current invocation
\* of lc2st_scores with cross_val=False, and member i of them (from 1).
MemberUnits ==
    {k \in 1..Len(unit_log) : unit_log[k].unit[1] = sc.callno
                              /\ unit_log[k].mode = "ensemble"}
Member(i) == FoldUnit(i)
MeanOverMembers(V(_)) ==
    [of |-> [i \in 1..sc.n_ensemble |-> V(Member(i)).of[1]],
     over |-> sc.n_ensemble]
AllMembersDone ==
    /\ Cardinality(MemberUnits) = sc.n_ensemble
    /\ \A i \in 1..sc.n_ensemble :
          /\ heap[Member(i).clf].fit_units = {<<sc.callno, i - 1>>}
          /\ heap[Member(i).clf].eval_units = {<<sc.callno, i - 1>>}

\* C23: with cross_val=False, the accuracy and the probabilities lc2st_scores
\* returns are the means over all n_ensemble members, and as long as a member
\* is still to be trained or evaluated no mean and no metric exists.
C23_MeansOverAllMembersOnly ==
    (api # "none" /\ ~sc.cross_val) =>
        /\ (probas # <<>> \/ scores # <<>>) => AllMembersDone
        /\ pc = "returned" =>
              /\ AllMembersDone
              /\ probas = MeanOverMembers(ProbaOf)
              /\ \A m \in Range(sc.metrics) :
                    scores[m] =
                        IF HasAccuracy(m) THEN MeanOverMembers(AccuracyOf)
                        ELSE compute_metric(MeanOverMembers(ProbaOf), <<m>>,
                                            sc.single_class_eval).scores[m]

\* A returned ensemble of two members with the accuracy and another metric.
C23_Witness ==
    /\ api = "lc2st_scores"
    /\ pc = "returned"
    /\ ~sc.cross_val
    /\ sc.n_ensemble = 2
    /\ sc.metrics = <<"probas_mean", "accuracy">>
    /\ Cardinality(MemberUnits) = 2

\* The held-out set of fold f (from 0) of k folds over the n indices in the
\* order the seeded shuffle gives them: the fold starts after the folds before
\* it, of which the first n % k hold one index more than n \div k.
SeededFold(n, k, f) ==
    LET before == f * (n \div k) + (IF f < n % k THEN f ELSE n % k)
        size == (n \div k) + (IF f < n % k THEN 1 ELSE 0)
    IN {shuffled[j] : j \in (before + 1)..(before + size)}
CvUnits == {k \in 1..Len(unit_log) : unit_log[k].mode = "cv"}

\* C24: every cross-validated invocation of lc2st_scores over n rows and
\* n_folds folds - the observed one, each null trial, whatever has been
\* called before - holds out the same index sets in the same order: those the
\* shuffle seeded with 42 gives n indices.
C24_SameFoldsInEveryInvocation ==
    /\ \A k \in CvUnits :
          unit_log[k].held_out =
              SeededFold(n_rows, sc.n_folds, unit_log[k].unit[2])
    /\ \A k1, k2 \in CvUnits :
          unit_log[k1].unit[2] = unit_log[k2].unit[2] =>
              unit_log[k1].held_out = unit_log[k2].held_out
    /\ CrossValidated =>
          \A f \in 1..Len(folds) : folds[f] = SeededFold(n_rows, sc.n_folds, f - 1)

\* The observed invocation and a null trial have both run the second of two
\* folds of unequal size, over indices the shuffle has moved.
C24_Witness ==
    /\ api = "t_stats_lc2st"
    /\ \E k1, k2 \in CvUnits :
          /\ unit_log[k1].unit = <<0, 1>>
          /\ unit_log[k2].unit = <<1, 1>>
    /\ n_rows % sc.n_folds # 0
    /\ shuffled[1] # 0

\* ------------------------------------------------- claims: the SBC curve
\* C25: for one rank or more, the SBC curve of a parameter dimension has
\* len(alphas) entries, never decreases along the grid, lies in [0, 1] and
\* ends at 1.
C25_SbcCurveIsACdf ==
    (sbc_out.computed /\ Len(sbc_in.ranks) > 0) =>
        /\ sbc_out.error = ""
        /\ Len(sbc_out.curve) = sbc_in.nbins
        /\ \A b \in 1..(Len(sbc_out.curve) - 1) :
              FLeq(sbc_out.curve[b], sbc_out.curve[b + 1])
        /\ \A b \in 1..Len(sbc_out.curve) :
              FLeq(Zero, sbc_out.curve[b]) /\ FLeq(sbc_out.curve[b], One)
        /\ FEq(sbc_out.curve[Len(sbc_out.curve)], One)

\* The curve of three ranks, not all equal, over three bins; it rises twice.
C25_Witness ==
    /\ sbc_out.computed
    /\ Len(sbc_in.ranks) = 3
    /\ sbc_in.nbins = 3
    /\ FLess(Zero, sbc_out.curve[1])
    /\ FLess(sbc_out.curve[1], sbc_out.curve[3])

\* ------------------------------------------- claims: lc2st_scores, part 5
\* The rows eval_lc2st scores when it is handed the arrays A and B at x_eval
\* and ends up with the flag single: those of A, and those of B unless single.
ScoredRows(A, B, single) ==
    EvalRows(A, 0..(Len(A.rows) - 1)) \cup
        (IF single \/ B.none THEN {} ELSE EvalRows(B, 0..(Len(B.rows) - 1)))
NamedRows(A, name) == \A k \in 1..Len(A.rows) : A.rows[k][1] = name

\* C26: with cross_val=False and in_sample=True every member is evaluated on
\* P and Q themselves, whatever P_eval and Q_eval were passed; with
\* in_sample=False it is evaluated on the P_eval and Q_eval passed; with
\* cross_val=True every fold is evaluated on its held-out rows (of P_eval and
\* Q_eval where given, of P and Q otherwise) whether in_sample is set or not.
C26_InSampleSelectsEvaluationData ==
    /\ \A k \in MemberUnits :
          IF sc.in_sample
          THEN /\ unit_log[k].eval =
                     ScoredRows(sc.P, sc.Q, unit_log[k].flag_used)
               /\ ~unit_log[k].Q_none
               /\ SampleOf(unit_log[k].eval) \subseteq
                     Range(sc.P.rows) \cup Range(sc.Q.rows)
          ELSE /\ unit_log[k].eval =
                     ScoredRows(sc.P_eval, sc.Q_eval, unit_log[k].flag_used)
               /\ unit_log[k].Q_none = sc.Q_eval.none
               /\ NamedRows(sc.P_eval, "P_eval")
               /\ \/ NamedRows(sc.Q_eval, "Q_eval")
                  \/ NamedRows(sc.Q_eval, "P_eval_null")
    /\ \A k \in CurrentUnits :
          LET held == unit_log[k].held_out
              P_val == IF sc.P_eval.none THEN sc.P ELSE sc.P_eval
              Q_val == IF sc.Q_eval.none THEN sc.Q ELSE sc.Q_eval
          IN unit_log[k].eval =
                 EvalRows(P_val, held) \cup
                     (IF unit_log[k].flag_used THEN {} ELSE EvalRows(Q_val, held))

\* t_stats_lc2st with in_sample=True and cross_val=False was given a P_eval
\* of fewer rows than P, and a member has been evaluated on all rows of P.
C26_Witness ==
    /\ api = "t_stats_lc2st"
    /\ targs.flags.in_sample
    /\ ~targs.flags.cross_val
    /\ targs.n_test < n_rows
    /\ \E k \in MemberUnits :
          Cardinality(SampleOf(unit_log[k].eval)) >= n_rows

\* The classifiers the current invocation of lc2st_scores has fitted.
TrainedByCall ==
    {c \in 1..Len(heap) : \E u \in heap[c].fit_units : u[1] = sc.callno}

\* C27: a returned lc2st_scores has fitted exactly n_ensemble classifiers
\* with cross_val=False and exactly n_folds with cross_val=True; with
\* cross_val=True it returns one probability array per fold, each from the
\* classifier fitted on the rows outside the fold, whatever n_ensemble is.
C27_NumberOfClassifiersTrained ==
    pc = "returned" =>
        IF ~sc.cross_val
        THEN Cardinality(TrainedByCall) = sc.n_ensemble
        ELSE /\ Cardinality(TrainedByCall) = sc.n_folds
             /\ Len(probas) = sc.n_folds
             /\ \A i \in 1..sc.n_folds :
                   /\ probas[i] = ProbaOf(FoldUnit(i))
                   /\ FoldUnit(i).held_out = folds[i]
                   /\ Range(heap[FoldUnit(i).clf].train_P) =
                         JointRows(sc.P, sc.x_P, AllIndices \ folds[i])
                   /\ Range(heap[FoldUnit(i).clf].train_Q) =
                         JointRows(sc.Q, sc.x_Q, AllIndices \ folds[i])

\* A returned cross-validation over three folds that was given n_ensemble=2.
C27_Witness ==
    /\ pc = "returned"
    /\ sc.cross_val
    /\ sc.n_folds = 3
    /\ sc.n_ensemble = 2
    /\ Cardinality(TrainedByCall) = 3

\* ------------------------------------- claims: test_utils.py, two calls
\* C28: for one non-empty null sequence, in any order, the p-value of the
\* smaller observed statistic is at least that of the greater, and the
\* p-value of one statistic is the same for every order; and a metric that
\* eval_htest rejects at a level is rejected at every greater level.
PvaluePairReturned == rel_out.called = "compute_pvalue"
HtestPairReturned == rel_out.called = "eval_htest"
C28_MonotoneAndOrderFree ==
    /\ (PvaluePairReturned /\ Len(rel_in.nulls) > 0) =>
          /\ rel_in.t1 <= rel_in.t2 => FLeq(rel_out.second, rel_out.first)
          /\ rel_in.t1 = rel_in.t2 => FEq(rel_out.first, rel_out.second)
    /\ (HtestPairReturned /\ FLeq(rel_in.alpha1, rel_in.alpha2)) =>
          \A m \in Range(rel_in.metrics) :
              rel_out.first[m] => rel_out.second[m]

\* Two p-values over a reordered null sequence of three values that differ:
\* the second statistic is greater and its p-value smaller.
C28_Witness ==
    /\ PvaluePairReturned
    /\ Len(rel_in.nulls) = 3
    /\ rel_in.nulls2 # rel_in.nulls
    /\ rel_in.t1 < rel_in.t2
    /\ FLess(rel_out.second, rel_out.first)

\* ------------------------------------------------- claims: hpd_region
\* The levels the search has to choose from: the initial 1 and every level
\* examined so far.
Candidates == {Total(hpd_in.w)} \cup Range(new_confidence_levels)
HpdDone == hpd_pc \in {"returned", "raised"}
HpdSearchBounded ==
    hpd_pc # "idle" =>
        /\ idx = Len(new_confidence_levels)
        /\ idx <= hpd_in.n_p_stars
HpdReturnsClosest ==
    hpd_pc = "returned" =>
        /\ \/ ~BeyondTol(hpd_in, current_confidence_level)
           \/ idx = hpd_in.n_p_stars
        /\ current_confidence_level \in Candidates
        /\ \A level \in Candidates :
              Distance(hpd_in, current_confidence_level)
                  <= Distance(hpd_in, level)

\* C29: the threshold search of hpd_region ends, having examined at most
\* n_p_stars thresholds; when it returns, the returned level is within tol of
\* confidence_level or every threshold has been examined, and no level among
\* 1 and the levels examined is closer to confidence_level than the returned
\* one.
C29_SearchEndsWithClosestLevel ==
    /\ [](HpdSearchBounded /\ HpdReturnsClosest)
    /\ <>HpdDone

\* A search that examined all of three thresholds without coming within tol
\* and returns a level other than the initial 1 and the last one examined.
C29_Witness ==
    /\ hpd_pc = "returned"
    /\ hpd_in.n_p_stars = 3
    /\ idx = 3
    /\ BeyondTol(hpd_in, current_confidence_level)
    /\ current_confidence_level # Total(hpd_in.w)
    /\ current_confidence_level # new_confidence_levels[3]

\* C30: on every exit of the search the returned region is the set of grid
\* points whose normalised probability is at least the threshold that gave
\* the returned level: the probabilities of the region add up to
\* current_confidence_level.
C30_RegionHasReturnedLevel ==
    hpd_pc = "returned" =>
        SumAt(hpd_in.w, hpd_region_out) = current_confidence_level

====
